---------------------------- MODULE Spec2Model ----------------------------
(* Model of the LangChain example repository: the menu script            *)
(* main_demo.py (environment check, argument dispatch, interactive loop, *)
(* run_module, run_all_modules), the main() of the seven example         *)
(* modules, and the pure tool functions of 6_agents_and_tools.py.        *)
(* Strings are sequences of one-character strings, so that lower() and   *)
(* strip() are computed and not assumed.                                 *)
EXTENDS Integers, Sequences, FiniteSets, TLC

VARIABLES
    entry,        \* the script that was launched: "main_demo" or a module key
    argv1,        \* sys.argv[1] as a character sequence, or NoArg
    envKey,       \* OPENAI_API_KEY in os.environ: "unset", "empty" or "set"
    dotenvKey,    \* OPENAI_API_KEY in the .env file: "unset", "empty" or "set"
    libsMissing,  \* TRUE once check_environment found a required library missing
    pc,           \* the position of the running script
    exitStatus,   \* -1 while running, else the process exit status
    exitBy,       \* "none", "return", "sys.exit" or "uncaught"
    allFrom,      \* the caller of run_all_modules: "arg", "menu" or "none"
    modFrom,      \* the caller of run_module / main: "arg", "menu", "all", "direct", "none"
    curMod,       \* the key of the module being run, or "none"
    exIdx,        \* index of the next example function of curMod's main
    started,      \* indices of the example functions started by the current main
    mainEnd,      \* how the last module main ended: "none","nokey","success","error","interrupt"
    modResult,    \* what the last run_module returned: "none", TRUE or FALSE
    runLog,       \* keys passed to run_module by the current run_all_modules, in order
    results,      \* the results dict of run_all_modules: key -> success
    loaded,       \* keys of the modules exec_module has executed so far
    anyExample,   \* TRUE once any example function has been started
    prompts,      \* lines read from standard input so far
    lastLine,     \* the last line read at the menu prompt, or NoArg
    lastInput,    \* how the last input() or sleep ended: "none", "line", "kbd", "eof"
    failedAt,     \* index of the example an exception left in the current main, 0 if none
    helpShown,    \* TRUE once show_help has printed
    reportShown,  \* TRUE once run_all_modules has printed its report
    response,     \* the answer run_all_modules has just read and tested, or NoArg
    cexpr,        \* calculator_tool: the argument (character sequence)
    ctree,        \* the expression tree cexpr was written from, <<>> if none
    cpc,          \* calculator_tool: "idle", "call", "checked" or "returned"
    cAllowed,     \* calculator_tool: the outcome of the allow-list test
    cEvaluated,   \* calculator_tool: TRUE once eval has been called
    cret,         \* calculator_tool: the returned string
    cglobals,     \* the names the program has bound when the tool is called
    cprev,        \* what the previous call with cexpr returned
    tool,         \* the helper function under call, or "none"
    targ,         \* its argument (character sequence)
    titems,       \* the list targ was joined from, <<>> if none
    tpc,          \* its position: "idle", "call", "loop" or "returned"
    tnum,         \* fibonacci_tool, prime_check_tool: num
    ta,           \* fibonacci_tool: a
    tb,           \* fibonacci_tool: b
    ti,           \* the index the for loop of the tool has reached
    tret,         \* what the call returned, or the exception that left it
    fn,           \* the function of modules 4 and 5 under way, or "none"
    fpc,          \* its position
    disk,         \* the files and directories of the run that exist
    pending,      \* the exception travelling up the function, or "none"
    raisedAt,     \* the position where the first exception was raised, or "none"
    leftBy,       \* how the function was left: "none", "return" or "raise"
    qfn,          \* the example function whose query loop is under way, or "none"
    qpc,          \* its position: "idle", "head", "try", "except", "done" or "left"
    qi,           \* the number of list elements the for statement has taken
    qlog          \* the queries attempted so far with their outcomes, in order

mainVars == <<entry, argv1, envKey, dotenvKey, libsMissing, pc,
              exitStatus, exitBy, allFrom, modFrom, curMod, exIdx, started,
              mainEnd, modResult, runLog, results, loaded, anyExample, prompts,
              lastLine, lastInput, failedAt, helpShown, reportShown, response>>

calcVars == <<cexpr, ctree, cpc, cAllowed, cEvaluated, cret, cglobals, cprev>>

toolVars == <<tool, targ, titems, tpc, tnum, ta, tb, ti, tret>>

fileVars == <<fn, fpc, disk, pending, raisedAt, leftBy>>

loopVars == <<qfn, qpc, qi, qlog>>

vars == <<entry, argv1, envKey, dotenvKey, libsMissing, pc,
          exitStatus, exitBy, allFrom, modFrom, curMod, exIdx, started,
          mainEnd, modResult, runLog, results, loaded, anyExample, prompts,
          lastLine, lastInput, failedAt, helpShown, reportShown, response,
          cexpr, ctree, cpc, cAllowed, cEvaluated, cret, cglobals, cprev,
          tool, targ, titems, tpc, tnum, ta, tb, ti, tret,
          fn, fpc, disk, pending, raisedAt, leftBy,
          qfn, qpc, qi, qlog>>

-----------------------------------------------------------------------------
(* Bounds of the model.                                                    *)

\* lines standard input can deliver before it is exhausted
MaxPrompts == 3

\* the longest argument given to calculator_tool, in characters
MaxLen == 4

\* magnitudes the model computes with; a larger value is "unknown"
ValueCap == 30000

\* digits of a number literal, and exponents, the model computes with
MaxDigits == 5

MaxExponent == 16

-----------------------------------------------------------------------------
(* Strings.                                                                *)

NoArg == <<"<none>">>

\* str.lower on the letters the inputs use
LowerChar(c) ==
    CASE c = "A" -> "a" [] c = "E" -> "e" [] c = "H" -> "h" [] c = "L" -> "l"
      [] c = "P" -> "p" [] c = "Q" -> "q" [] c = "S" -> "s" [] c = "T" -> "t"
      [] c = "V" -> "v" [] c = "Y" -> "y" [] c = "N" -> "n" [] c = "X" -> "x"
      [] OTHER -> c

Lower(s) == [i \in DOMAIN s |-> LowerChar(s[i])]

IsSpace(c) == c \in {" ", "\t", "\n"}

RECURSIVE LStrip(_)
LStrip(s) == IF s # <<>> /\ IsSpace(Head(s)) THEN LStrip(Tail(s)) ELSE s

RECURSIVE RStrip(_)
RStrip(s) ==
    IF s # <<>> /\ IsSpace(s[Len(s)]) THEN RStrip(SubSeq(s, 1, Len(s) - 1)) ELSE s

\* str.strip
Strip(s) == RStrip(LStrip(s))

-----------------------------------------------------------------------------
(* The module registry of main_demo.py and the main() of each module.     *)

\* the keys of the modules dict
ModuleKeys == {"1", "2", "3", "4", "5", "6", "7"}

\* arg in modules, for a character sequence
InModules(s) == Len(s) = 1 /\ s[1] \in ModuleKeys

\* the code point order of the one-character keys
KeyOrd(k) ==
    CASE k = "1" -> 49 [] k = "2" -> 50 [] k = "3" -> 51 [] k = "4" -> 52
      [] k = "5" -> 53 [] k = "6" -> 54 [] k = "7" -> 55

\* sorted(modules.keys())
RECURSIVE SortedSeq(_)
SortedSeq(S) ==
    IF S = {} THEN <<>>
    ELSE LET m == CHOOSE x \in S : \A y \in S : KeyOrd(x) <= KeyOrd(y)
         IN <<m>> \o SortedSeq(S \ {m})

SortedKeys == SortedSeq(ModuleKeys)

\* the example functions each module's main calls, in call order
Examples1 ==
    <<"basic_llm_example", "chat_with_messages", "different_models_comparison",
      "streaming_example">>

Examples2 ==
    <<"basic_prompt_template", "chat_prompt_template", "few_shot_prompt_example",
      "basic_chain_example", "sequential_chain_example",
      "simple_sequential_chain_example">>

Examples3 ==
    <<"conversation_buffer_memory_example", "conversation_summary_memory_example",
      "conversation_token_buffer_memory_example",
      "conversation_summary_buffer_memory_example",
      "conversation_window_memory_example", "custom_memory_with_specific_info">>

Examples4 ==
    <<"create_sample_documents", "text_loader_example",
      "directory_loader_example", "web_loader_example",
      "character_text_splitter_example", "recursive_text_splitter_example",
      "token_text_splitter_example", "document_summarization_example">>

Examples5 ==
    <<"embedding_basics_example", "chroma_vector_store_example",
      "faiss_vector_store_example", "semantic_search_example",
      "retrieval_qa_example", "vector_store_filtering_example">>

Examples6 ==
    <<"basic_agent_example", "react_agent_example",
      "conversational_agent_example", "custom_tool_agent_example",
      "multi_step_problem_solving">>

Examples7 ==
    <<"basic_rag_example", "advanced_rag_with_custom_prompt",
      "conversational_rag_example", "multi_document_rag_with_filtering",
      "rag_with_source_citation">>

\* the module file behind each key, by its main
Examples(k) ==
    CASE k = "1" -> Examples1 [] k = "2" -> Examples2 [] k = "3" -> Examples3
      [] k = "4" -> Examples4 [] k = "5" -> Examples5 [] k = "6" -> Examples6
      [] k = "7" -> Examples7

-----------------------------------------------------------------------------
(* Inputs: command-line arguments and lines typed at the prompts.         *)

ArgInputs ==
    { NoArg, <<"1">>, <<"4">>, <<"7">>, <<"8">>, <<"a","l","l">>,
      <<"A","L","L">>, <<"h","e","l","p">>, <<"H","e","l","p">>, <<"h">>,
      <<"H">>, <<"a">>, <<"q">>, <<"x">>, <<>>, <<" ","1">> }

MenuInputs ==
    { <<"q">>, <<"Q">>, <<" ","q"," ">>, <<"h">>, <<"H">>, <<"a">>,
      <<" ","A">>, <<"1">>, <<"2">>, <<"3">>, <<"4">>, <<"5">>, <<"6">>,
      <<" ","7","\n">>, <<"8">>, <<"x">>, <<>>, <<"a","l","l">> }

ConfirmInputs ==
    { <<"y">>, <<"Y">>, <<"y","e","s">>, <<"Y","E","S">>, <<"e","v","e","t">>,
      <<"e">>, <<"E">>, <<"n">>, <<>>, <<" ","y">>, <<"y","e">> }

\* what an input() call can deliver: a line, Ctrl-C, or end of input
InputEvents == {"line", "kbd", "eof"}

\* how a call into framework code can end
Outcomes == {"ok", "exc", "kbd"}

-----------------------------------------------------------------------------
(* main_demo.py                                                            *)

\* load_dotenv(): a variable already in os.environ is kept, a missing one
\* is taken from the .env file
LoadDotenv(env, file) == IF env = "unset" THEN file ELSE env

\* variant: the test is "os.getenv(...) is None"
KeyFalsy_NoneOnly(k) == k = "unset"

\* not os.getenv("OPENAI_API_KEY")
KeyFalsy(k) == k \in {"unset", "empty"}

\* the value check_environment returns
CheckEnvironmentOK(k, missing) ==
    IF KeyFalsy(k) THEN FALSE
    ELSE IF missing THEN FALSE
    ELSE TRUE

\* variant: the short form 'h' is not recognised
ArgBranch_NoShortHelp(arg) ==
    IF arg = <<"a","l","l">> THEN "all"
    ELSE IF arg = <<"h","e","l","p">> THEN "help"
    ELSE IF InModules(arg) THEN "module"
    ELSE "invalid"

\* the branch main takes for the lower-cased argument
ArgBranch(arg) ==
    IF arg = <<"a","l","l">> THEN "all"
    ELSE IF arg = <<"h","e","l","p">> \/ arg = <<"h">> THEN "help"
    ELSE IF InModules(arg) THEN "module"
    ELSE "invalid"

\* variant: an unrecognised choice leaves the loop
ChoiceBranch_UnknownQuits(choice) ==
    IF choice = <<"h">> THEN "help"
    ELSE IF choice = <<"a">> THEN "all"
    ELSE IF InModules(choice) THEN "module"
    ELSE "quit"

\* the branch interactive_mode takes for the stripped, lower-cased choice
ChoiceBranch(choice) ==
    IF choice = <<"q">> THEN "quit"
    ELSE IF choice = <<"h">> THEN "help"
    ELSE IF choice = <<"a">> THEN "all"
    ELSE IF InModules(choice) THEN "module"
    ELSE "invalid"

\* variant: the answer is stripped before the test
Confirmed_Stripped(answer) ==
    Lower(Strip(answer)) \in { <<"y">>, <<"y","e","s">>, <<"e","v","e","t">>, <<"e">> }

\* response.lower() in ['y', 'yes', 'evet', 'e']
Confirmed(answer) ==
    Lower(answer) \in { <<"y">>, <<"y","e","s">>, <<"e","v","e","t">>, <<"e">> }

\* variant: each example has its own try block
AfterExample_Continue(o, i, n) ==
    IF o \in {"ok", "exc"} THEN (IF i < n THEN "next" ELSE "success")
    ELSE "interrupt"

\* variant: the success line is printed after the except clause as well
AfterExample_SuccessAfterError(o, i, n) ==
    IF o = "ok" THEN (IF i < n THEN "next" ELSE "success")
    ELSE IF o = "exc" THEN "success"
    ELSE "interrupt"

\* how a module's main goes on after example i of n ended with outcome o:
\* the examples share one try block
AfterExample(o, i, n) ==
    IF o = "ok" THEN (IF i < n THEN "next" ELSE "success")
    ELSE IF o = "exc" THEN "error"
    ELSE "interrupt"

EmptyResults == [k \in {} |-> TRUE]

Exit(status, by) ==
    /\ pc' = "exited"
    /\ exitStatus' = status
    /\ exitBy' = by

Goto(p) ==
    /\ pc' = p
    /\ UNCHANGED <<exitStatus, exitBy>>

\* variant: the loop has no except clauses
Escapes_NoLoopHandler(ev, inLoop) ==
    IF ev = "kbd" THEN Exit(130, "uncaught") ELSE Exit(1, "uncaught")

\* an exception leaves the interactive loop (caught, break) or main (uncaught)
Escapes(ev, inLoop) ==
    IF inLoop THEN Exit(0, "return")
    ELSE IF ev = "kbd" THEN Exit(130, "uncaught")
    ELSE Exit(1, "uncaught")

\* variant: run_all_modules leaves its loop at the first failed module
RunModuleReturn_StopOnFailure(success) ==
    /\ modResult' = success
    /\ CASE modFrom = "arg" -> Exit(0, "return") /\ UNCHANGED results
         [] modFrom = "menu" -> Goto("pause") /\ UNCHANGED results
         [] modFrom = "all" ->
              /\ Goto(IF success THEN "all_sleep" ELSE "all_report")
              /\ results' = [k \in DOMAIN results \cup {curMod} |->
                               IF k = curMod THEN success ELSE results[k]]

\* run_module returns `success` to its caller
RunModuleReturn(success) ==
    /\ modResult' = success
    /\ CASE modFrom = "arg" -> Exit(0, "return") /\ UNCHANGED results
         [] modFrom = "menu" -> Goto("pause") /\ UNCHANGED results
         [] modFrom = "all" ->
              /\ Goto("all_sleep")
              /\ results' = [k \in DOMAIN results \cup {curMod} |->
                               IF k = curMod THEN success ELSE results[k]]

\* variant: run_module has no except KeyboardInterrupt clause
MainLeft_InterruptEscapes(how) ==
    IF modFrom = "direct" \/ how = "kbd"
    THEN /\ IF how = "kbd" THEN Exit(130, "uncaught") ELSE Exit(0, "return")
         /\ UNCHANGED <<results, modResult>>
    ELSE RunModuleReturn(TRUE)

\* a module's main is left, normally or by a KeyboardInterrupt
MainLeft(how) ==
    IF modFrom = "direct"
    THEN /\ IF how = "kbd" THEN Exit(130, "uncaught") ELSE Exit(0, "return")
         /\ UNCHANGED <<results, modResult>>
    ELSE RunModuleReturn(how # "kbd")

\* run_module(key) is called: a fresh run of one module begins
CallRunModule(key, from) ==
    /\ Goto("run_module")
    /\ curMod' = key
    /\ modFrom' = from
    /\ exIdx' = 0
    /\ started' = {}
    /\ mainEnd' = "none"
    /\ failedAt' = 0

\* no module run begins in this step
NoModuleCall == UNCHANGED <<curMod, modFrom, exIdx, started, mainEnd, failedAt>>

\* run_all_modules returns to its caller
RunAllReturn ==
    IF allFrom = "arg" THEN Exit(0, "return") ELSE Goto("pause")

\* no call of calculator_tool is under way
NotCalled == [msg |-> "<not called>", text |-> <<>>]

NoNames == [n \in {<<"y">>} |-> 0]

NoPrevious == NotCalled


CalcIdle ==
    /\ cexpr = <<>>
    /\ ctree = <<>>
    /\ cpc = "idle"
    /\ cAllowed = FALSE
    /\ cEvaluated = FALSE
    /\ cret = NotCalled
    /\ cglobals = NoNames
    /\ cprev = NoPrevious

\* no call of a helper function is under way
ToolIdle ==
    /\ tool = "none"
    /\ targ = <<>>
    /\ titems = <<>>
    /\ tpc = "idle"
    /\ tnum = 0
    /\ ta = 0
    /\ tb = 0
    /\ ti = 0
    /\ tret = NotCalled

\* no function with files of its own is under way
FileIdle ==
    /\ fn = "none"
    /\ fpc = "idle"
    /\ disk = {}
    /\ pending = "none"
    /\ raisedAt = "none"
    /\ leftBy = "none"

\* no query loop is under way
LoopIdle ==
    /\ qfn = "none"
    /\ qpc = "idle"
    /\ qi = 0
    /\ qlog = <<>>

Init ==
    /\ entry \in {"main_demo"} \cup ModuleKeys
    /\ argv1 \in IF entry = "main_demo" THEN ArgInputs ELSE {NoArg}
    /\ envKey \in {"unset", "empty", "set"}
    /\ dotenvKey \in {"unset", "empty", "set"}
    /\ libsMissing = FALSE
    /\ pc = "start"
    /\ exitStatus = -1
    /\ exitBy = "none"
    /\ allFrom = "none"
    /\ modFrom = "none"
    /\ curMod = "none"
    /\ exIdx = 0
    /\ started = {}
    /\ mainEnd = "none"
    /\ modResult = "none"
    /\ runLog = <<>>
    /\ results = EmptyResults
    /\ loaded = {}
    /\ anyExample = FALSE
    /\ prompts = 0
    /\ lastLine = NoArg
    /\ lastInput = "none"
    /\ failedAt = 0
    /\ helpShown = FALSE
    /\ reportShown = FALSE
    /\ response = NoArg
    /\ CalcIdle
    /\ ToolIdle
    /\ FileIdle
    /\ LoopIdle

\* main: check_environment, then sys.exit(1) or on to the dispatch
MainCheckEnvironment ==
    /\ pc = "start"
    /\ entry = "main_demo"
    /\ envKey' = LoadDotenv(envKey, dotenvKey)
    /\ \E missing \in BOOLEAN :
         /\ libsMissing' = (~KeyFalsy(envKey') /\ missing)
         /\ IF CheckEnvironmentOK(envKey', missing)
            THEN Goto("dispatch")
            ELSE Exit(1, "sys.exit")
    /\ UNCHANGED <<entry, argv1, response, dotenvKey, allFrom, modFrom, curMod, exIdx,
                   started, mainEnd, modResult, runLog, results, loaded,
                   anyExample, prompts, lastLine, lastInput, failedAt,
                   helpShown, reportShown>>
    /\ UNCHANGED <<calcVars, toolVars, fileVars, loopVars>>

\* main: the dispatch on sys.argv
MainDispatch ==
    /\ pc = "dispatch"
    /\ IF argv1 = NoArg
       THEN /\ Goto("menu")
            /\ NoModuleCall
            /\ UNCHANGED <<allFrom, helpShown>>
       ELSE LET arg == Lower(argv1)
                branch == ArgBranch(arg)
            IN CASE branch = "all" ->
                      /\ Goto("all_confirm")
                      /\ allFrom' = "arg"
                      /\ NoModuleCall
                      /\ UNCHANGED helpShown
                 [] branch = "help" ->
                      /\ Exit(0, "return")
                      /\ helpShown' = TRUE
                      /\ NoModuleCall
                      /\ UNCHANGED allFrom
                 [] branch = "module" ->
                      /\ CallRunModule(arg[1], "arg")
                      /\ UNCHANGED <<allFrom, helpShown>>
                 [] branch = "invalid" ->
                      /\ Exit(1, "sys.exit")
                      /\ NoModuleCall
                      /\ UNCHANGED <<allFrom, helpShown>>
    /\ UNCHANGED <<entry, argv1, response, envKey, dotenvKey, libsMissing, modResult,
                   runLog, results, loaded, anyExample, prompts, lastLine,
                   lastInput, reportShown>>
    /\ UNCHANGED <<calcVars, toolVars, fileVars, loopVars>>

\* interactive_mode: display_menu, read the choice, dispatch it
InteractiveChoice ==
    /\ pc = "menu"
    /\ \E ev \in InputEvents :
         /\ lastInput' = ev
         /\ IF ev = "line"
            THEN /\ prompts < MaxPrompts
                 /\ prompts' = prompts + 1
                 /\ \E raw \in MenuInputs :
                      LET choice == Lower(Strip(raw))
                          branch == ChoiceBranch(choice)
                      IN /\ lastLine' = raw
                         /\ CASE branch = "quit" ->
                                   /\ Exit(0, "return")
                                   /\ NoModuleCall
                                   /\ UNCHANGED <<allFrom, helpShown>>
                              [] branch = "help" ->
                                   /\ Goto("pause")
                                   /\ helpShown' = TRUE
                                   /\ NoModuleCall
                                   /\ UNCHANGED allFrom
                              [] branch = "all" ->
                                   /\ Goto("all_confirm")
                                   /\ allFrom' = "menu"
                                   /\ NoModuleCall
                                   /\ UNCHANGED helpShown
                              [] branch = "module" ->
                                   /\ CallRunModule(choice[1], "menu")
                                   /\ UNCHANGED <<allFrom, helpShown>>
                              [] branch = "invalid" ->
                                   /\ Goto("pause")
                                   /\ NoModuleCall
                                   /\ UNCHANGED <<allFrom, helpShown>>
            ELSE /\ Escapes(ev, TRUE)
                 /\ NoModuleCall
                 /\ UNCHANGED <<lastLine, prompts, allFrom, helpShown>>
    /\ UNCHANGED <<entry, argv1, response, envKey, dotenvKey, libsMissing, modResult,
                   runLog, results, loaded, anyExample, reportShown>>
    /\ UNCHANGED <<calcVars, toolVars, fileVars, loopVars>>

\* interactive_mode: the "press Enter" input after a dispatched choice
InteractivePause ==
    /\ pc = "pause"
    /\ \E ev \in InputEvents :
         /\ lastInput' = ev
         /\ IF ev = "line"
            THEN /\ prompts < MaxPrompts
                 /\ prompts' = prompts + 1
                 /\ Goto("menu")
            ELSE /\ Escapes(ev, TRUE)
                 /\ UNCHANGED prompts
    /\ response' = NoArg
    /\ UNCHANGED <<entry, argv1, envKey, dotenvKey, libsMissing, allFrom,
                   modFrom, curMod, exIdx, started, mainEnd, modResult,
                   runLog, results, loaded, anyExample, lastLine, failedAt,
                   helpShown, reportShown>>
    /\ UNCHANGED <<calcVars, toolVars, fileVars, loopVars>>

\* run_all_modules: the confirmation prompt
RunAllConfirm ==
    /\ pc = "all_confirm"
    /\ \E ev \in InputEvents :
         /\ lastInput' = ev
         /\ IF ev = "line"
            THEN /\ prompts < MaxPrompts
                 /\ prompts' = prompts + 1
                 /\ \E line \in ConfirmInputs :
                      /\ response' = line
                      /\ IF Confirmed(line)
                         THEN Goto("all_next")
                         ELSE RunAllReturn
            ELSE /\ Escapes(ev, allFrom = "menu")
                 /\ response' = NoArg
                 /\ UNCHANGED prompts
    /\ runLog' = <<>>
    /\ results' = EmptyResults
    /\ UNCHANGED <<entry, argv1, envKey, dotenvKey, libsMissing, allFrom,
                   modFrom, curMod, exIdx, started, mainEnd, modResult,
                   loaded, anyExample, lastLine, failedAt, helpShown,
                   reportShown>>
    /\ UNCHANGED <<calcVars, toolVars, fileVars, loopVars>>

\* run_all_modules: the head of the loop over sorted(modules.keys())
RunAllNext ==
    /\ pc = "all_next"
    /\ IF Len(runLog) < Len(SortedKeys)
       THEN LET key == SortedKeys[Len(runLog) + 1]
            IN /\ runLog' = Append(runLog, key)
               /\ CallRunModule(key, "all")
       ELSE /\ Goto("all_report")
            /\ NoModuleCall
            /\ UNCHANGED runLog
    /\ response' = NoArg
    /\ UNCHANGED <<entry, argv1, envKey, dotenvKey, libsMissing, allFrom,
                   modResult, results, loaded, anyExample, prompts, lastLine,
                   lastInput, helpShown, reportShown>>
    /\ UNCHANGED <<calcVars, toolVars, fileVars, loopVars>>

\* run_all_modules: the report, then the return
RunAllReport ==
    /\ pc = "all_report"
    /\ reportShown' = TRUE
    /\ RunAllReturn
    /\ runLog' = <<>>
    /\ results' = EmptyResults
    /\ UNCHANGED <<entry, argv1, response, envKey, dotenvKey, libsMissing, allFrom,
                   modFrom, curMod, exIdx, started, mainEnd, modResult,
                   loaded, anyExample, prompts, lastLine, lastInput,
                   failedAt, helpShown>>
    /\ UNCHANGED <<calcVars, toolVars, fileVars, loopVars>>

\* run_all_modules: time.sleep(2) between modules
RunAllSleep ==
    /\ pc = "all_sleep"
    /\ \E o \in {"ok", "kbd"} :
         IF o = "ok"
         THEN Goto("all_next") /\ UNCHANGED lastInput
         ELSE Escapes("kbd", allFrom = "menu") /\ lastInput' = "kbd"
    /\ UNCHANGED <<entry, argv1, response, envKey, dotenvKey, libsMissing, allFrom,
                   modFrom, curMod, exIdx, started, mainEnd, modResult,
                   runLog, results, loaded, anyExample, prompts, lastLine,
                   failedAt, helpShown, reportShown>>
    /\ UNCHANGED <<calcVars, toolVars, fileVars, loopVars>>

\* run_module: the file test and the dynamic load of the module
RunModuleLoad ==
    /\ pc = "run_module"
    /\ \E exists \in BOOLEAN, o \in Outcomes :
         IF exists /\ o = "ok"
         THEN /\ loaded' = loaded \cup {curMod}
              /\ envKey' = LoadDotenv(envKey, dotenvKey)
              /\ Goto("mod_main")
              /\ UNCHANGED <<results, modResult>>
         ELSE /\ RunModuleReturn(FALSE)
              /\ UNCHANGED <<loaded, envKey>>
    /\ UNCHANGED <<entry, argv1, response, dotenvKey, libsMissing, allFrom, modFrom,
                   curMod, exIdx, started, mainEnd, runLog, anyExample, prompts,
                   lastLine, lastInput, failedAt, helpShown, reportShown>>
    /\ UNCHANGED <<calcVars, toolVars, fileVars, loopVars>>

\* a module launched as a script: its import block and load_dotenv()
StandaloneLoad ==
    /\ pc = "start"
    /\ entry \in ModuleKeys
    /\ \E o \in Outcomes :
         IF o = "ok"
         THEN /\ loaded' = loaded \cup {entry}
              /\ envKey' = LoadDotenv(envKey, dotenvKey)
              /\ curMod' = entry
              /\ modFrom' = "direct"
              /\ Goto("mod_main")
         ELSE /\ Escapes(o, FALSE)
              /\ UNCHANGED <<loaded, envKey, curMod, modFrom>>
    /\ UNCHANGED <<entry, argv1, response, dotenvKey, libsMissing, allFrom, exIdx,
                   started, mainEnd, modResult, runLog, results, anyExample,
                   prompts, lastLine, lastInput, failedAt, helpShown,
                   reportShown>>
    /\ UNCHANGED <<calcVars, toolVars, fileVars, loopVars>>

\* a module's main: the credential check
ModuleMain ==
    /\ pc = "mod_main"
    /\ IF KeyFalsy(envKey)
       THEN /\ mainEnd' = "nokey"
            /\ MainLeft("normal")
            /\ UNCHANGED exIdx
       ELSE /\ exIdx' = 1
            /\ Goto("example")
            /\ UNCHANGED <<mainEnd, results, modResult>>
    /\ UNCHANGED <<entry, argv1, response, envKey, dotenvKey, libsMissing, allFrom,
                   modFrom, curMod, started, runLog, loaded, anyExample,
                   prompts, lastLine, lastInput, failedAt, helpShown,
                   reportShown>>
    /\ UNCHANGED <<calcVars, toolVars, fileVars, loopVars>>

\* a module's main: one example function is called and ends
ModuleExample ==
    /\ pc = "example"
    /\ started' = started \cup {exIdx}
    /\ anyExample' = TRUE
    /\ \E o \in Outcomes :
         LET after == AfterExample(o, exIdx, Len(Examples(curMod)))
         IN /\ failedAt' = IF o = "ok" THEN failedAt ELSE exIdx
            /\ IF after = "next"
               THEN /\ exIdx' = exIdx + 1
                    /\ Goto("example")
                    /\ UNCHANGED <<mainEnd, results, modResult>>
               ELSE /\ mainEnd' = after
                    /\ UNCHANGED exIdx
                    /\ MainLeft(IF after = "interrupt" THEN "kbd" ELSE "normal")
    /\ UNCHANGED <<entry, argv1, response, envKey, dotenvKey, libsMissing, allFrom,
                   modFrom, curMod, runLog, loaded, prompts, lastLine,
                   lastInput, helpShown, reportShown>>
    /\ UNCHANGED <<calcVars, toolVars, fileVars, loopVars>>

Next ==
    \/ MainCheckEnvironment
    \/ MainDispatch
    \/ InteractiveChoice
    \/ InteractivePause
    \/ RunAllConfirm
    \/ RunAllNext
    \/ RunAllReport
    \/ RunAllSleep
    \/ RunModuleLoad
    \/ StandaloneLoad
    \/ ModuleMain
    \/ ModuleExample

Spec == Init /\ [][Next]_vars

-----------------------------------------------------------------------------
(* calculator_tool of 6_agents_and_tools.py.  eval is modelled by a       *)
(* tokenizer, a parser for Python's expression grammar over the tokens    *)
(* the characters of the model can form, and an evaluator over int, float *)
(* and the empty tuple.  A float is kept as the exact fraction n/d; the   *)
(* model uses it only to tell a zero divisor.                             *)

\* variant: the allow-list lets a letter through
AllowedChars_WithLetter ==
    {"0", "1", "2", "3", "4", "5", "6", "7", "8", "9",
     "+", "-", "*", "/", ".", "(", ")", " ", "y"}

\* allowed_chars = set('0123456789+-*/.() ')
AllowedChars ==
    {"0", "1", "2", "3", "4", "5", "6", "7", "8", "9",
     "+", "-", "*", "/", ".", "(", ")", " "}

\* variant: any() in place of all()
AllAllowed_Any(s) == \E i \in DOMAIN s : s[i] \in AllowedChars

\* all(c in allowed_chars for c in expression)
AllAllowed(s) == \A i \in DOMAIN s : s[i] \in AllowedChars

Digits == {"0", "1", "2", "3", "4", "5", "6", "7", "8", "9"}

DigitVal(c) ==
    CASE c = "0" -> 0 [] c = "1" -> 1 [] c = "2" -> 2 [] c = "3" -> 3
      [] c = "4" -> 4 [] c = "5" -> 5 [] c = "6" -> 6 [] c = "7" -> 7
      [] c = "8" -> 8 [] c = "9" -> 9

DigitChar(d) == <<"0", "1", "2", "3", "4", "5", "6", "7", "8", "9">>[d + 1]

\* characters that can start or continue an identifier
NameChars == {"y", "z"}

Abs(n) == IF n < 0 THEN -n ELSE n

RECURSIVE Gcd(_, _)
Gcd(a, b) == IF b = 0 THEN a ELSE Gcd(b, a % b)

\* the Python values of the model
IntV(n) == IF Abs(n) > ValueCap THEN <<"unknown">> ELSE <<"int", n>>

RECURSIVE IsPow2(_)
IsPow2(d) == d = 1 \/ (d > 1 /\ d % 2 = 0 /\ IsPow2(d \div 2))

\* the float nearest to n/d; exact tells that the float is n/d itself: the
\* operands it was computed from were, and n/d is a binary fraction
FloatV(n, d, exact) ==
    LET g == Gcd(Abs(n), d)
        nn == IF g = 0 THEN 0 ELSE n \div g
        dd == IF g = 0 THEN 1 ELSE d \div g
    IN IF Abs(nn) > ValueCap \/ dd > ValueCap THEN <<"unknown">>
       ELSE <<"float", nn, dd, exact /\ IsPow2(dd)>>

TupleV == <<"tuple">>

\* an outcome outside the range the model computes: a number beyond
\* ValueCap, an OverflowError, a result the rounding of a float decides
UnknownV == <<"unknown">>

\* the value of the literal '...'
EllipsisV == <<"ellipsis">>

IsNum(v) == v[1] \in {"int", "float"}

Numer(v) == v[2]

Denom(v) == IF v[1] = "float" THEN v[3] ELSE 1

Exact(v) == v[1] = "int" \/ v[4]

\* the length of the run of digits s starts with
RECURSIVE DigitRun(_)
DigitRun(s) ==
    IF s # <<>> /\ Head(s) \in Digits THEN 1 + DigitRun(Tail(s)) ELSE 0

RECURSIVE NameRun(_)
NameRun(s) ==
    IF s # <<>> /\ Head(s) \in NameChars \cup Digits THEN 1 + NameRun(Tail(s)) ELSE 0

\* the number a sequence of digits writes
RECURSIVE DigitsValue(_)
DigitsValue(ds) ==
    IF ds = <<>> THEN 0
    ELSE 10 * DigitsValue(SubSeq(ds, 1, Len(ds) - 1)) + DigitVal(ds[Len(ds)])

RECURSIVE Pow10(_)
Pow10(k) == IF k = 0 THEN 1 ELSE 10 * Pow10(k - 1)

Drop(s, k) == SubSeq(s, k + 1, Len(s))

BadToken == <<"bad">>

\* the NUMBER token s starts with: <<token, length>>
NumberToken(s) ==
    LET n1 == DigitRun(s)
        dot == Len(s) > n1 /\ s[n1 + 1] = "."
        n2 == IF dot THEN DigitRun(Drop(s, n1 + 1)) ELSE 0
        len == IF dot THEN n1 + 1 + n2 ELSE n1
        ip == SubSeq(s, 1, n1)
        fp == SubSeq(s, n1 + 2, n1 + 1 + n2)
        glued == Len(s) > len /\ s[len + 1] \in NameChars
    IN IF glued THEN <<BadToken, len>>
       ELSE IF dot
       THEN IF n1 + n2 > MaxDigits THEN <<<<"num", UnknownV>>, len>>
            ELSE <<<<"num", FloatV(DigitsValue(ip \o fp), Pow10(n2), TRUE)>>, len>>
       ELSE IF n1 > 1 /\ ip[1] = "0" /\ \E i \in 1..n1 : ip[i] # "0"
            THEN <<BadToken, len>>
            ELSE IF n1 > MaxDigits THEN <<<<"num", UnknownV>>, len>>
            ELSE <<<<"num", IntV(DigitsValue(ip))>>, len>>

\* the tokens of a source string; BadToken where the tokenizer fails
RECURSIVE Tokenize(_)
Tokenize(s) ==
    IF s = <<>> THEN <<>>
    ELSE LET c == Head(s)
             c2 == IF Len(s) > 1 THEN s[2] ELSE ""
         IN IF c \in {" ", "\t"} THEN Tokenize(Tail(s))
            ELSE IF c \in Digits \/ (c = "." /\ c2 \in Digits)
            THEN LET nt == NumberToken(s)
                 IN <<nt[1]>> \o Tokenize(Drop(s, nt[2]))
            ELSE IF c \in NameChars
            THEN LET n == NameRun(s)
                 IN <<<<"name", SubSeq(s, 1, n)>>>> \o Tokenize(Drop(s, n))
            ELSE IF c = "*" /\ c2 = "*"
            THEN <<<<"op", "**">>>> \o Tokenize(Drop(s, 2))
            ELSE IF c = "/" /\ c2 = "/"
            THEN <<<<"op", "//">>>> \o Tokenize(Drop(s, 2))
            ELSE IF c = "." /\ c2 = "." /\ Len(s) > 2 /\ s[3] = "."
            THEN <<<<"num", EllipsisV>>>> \o Tokenize(Drop(s, 3))
            ELSE IF c \in {"+", "-", "*", "/", "(", ")", "."}
            THEN <<<<"op", c>>>> \o Tokenize(Tail(s))
            ELSE <<BadToken>> \o Tokenize(Tail(s))

IsOp(toks, ops) == toks # <<>> /\ toks[1][1] = "op" /\ toks[1][2] \in ops

Fail == [ok |-> FALSE, ast |-> <<>>, rest |-> <<>>]

Parsed(a, r) == [ok |-> TRUE, ast |-> a, rest |-> r]

\* variant: every binary operator binds alike, left to right
SumLevel_Flat == [ops |-> {"+", "-", "*", "/", "//"}, operand |-> "factor"]

\* the operators of the two binary levels of the grammar, and the rule
\* their operands are parsed with
SumLevel == [ops |-> {"+", "-"}, operand |-> "term"]

ProductLevel == [ops |-> {"*", "/", "//"}, operand |-> "factor"]

\* the parser of expressions, one case for each rule of the grammar:
\*   expr:     term (('+' | '-') term)*
\*   term:     factor (('*' | '/' | '//') factor)*
\*   factor:   ('+' | '-') factor | power
\*   power:    primary ['**' factor]
\*   primary:  atom ('(' [['*' | '**'] expr] ')' | '.' NAME)*
\*   atom:     NUMBER | '...' | NAME | '(' expr ')' | '(' ')'
\* left is the tree parsed so far where the rule continues one
RECURSIVE Parse(_, _, _)
Parse(rule, left, toks) ==
    CASE rule = "expr" ->
           LET t == Parse("term", <<>>, toks)
           IN IF t.ok THEN Parse("expr_rest", t.ast, t.rest) ELSE Fail
      [] rule = "expr_rest" ->
           IF IsOp(toks, SumLevel.ops)
           THEN LET t == Parse(SumLevel.operand, <<>>, Tail(toks))
                IN IF t.ok
                   THEN Parse("expr_rest", <<"bin", toks[1][2], left, t.ast>>,
                              t.rest)
                   ELSE Fail
           ELSE Parsed(left, toks)
      [] rule = "term" ->
           LET f == Parse("factor", <<>>, toks)
           IN IF f.ok THEN Parse("term_rest", f.ast, f.rest) ELSE Fail
      [] rule = "term_rest" ->
           IF IsOp(toks, ProductLevel.ops)
           THEN LET f == Parse(ProductLevel.operand, <<>>, Tail(toks))
                IN IF f.ok
                   THEN Parse("term_rest", <<"bin", toks[1][2], left, f.ast>>,
                              f.rest)
                   ELSE Fail
           ELSE Parsed(left, toks)
      [] rule = "factor" ->
           IF IsOp(toks, {"+", "-"})
           THEN LET f == Parse("factor", <<>>, Tail(toks))
                IN IF f.ok THEN Parsed(<<"unary", toks[1][2], f.ast>>, f.rest)
                   ELSE Fail
           ELSE Parse("power", <<>>, toks)
      [] rule = "power" ->
           LET a == Parse("atom", <<>>, toks)
               p == IF a.ok THEN Parse("trailers", a.ast, a.rest) ELSE Fail
           IN IF ~p.ok THEN Fail
              ELSE IF IsOp(p.rest, {"**"})
              THEN LET f == Parse("factor", <<>>, Tail(p.rest))
                   IN IF f.ok THEN Parsed(<<"bin", "**", p.ast, f.ast>>, f.rest)
                      ELSE Fail
              ELSE p
      [] rule = "trailers" ->
           IF IsOp(toks, {"("})
           THEN IF IsOp(Tail(toks), {")"})
                THEN Parse("trailers", <<"call", left, <<>>>>, Drop(toks, 2))
                ELSE LET args == IF IsOp(Tail(toks), {"*", "**"})
                                 THEN Drop(toks, 2)
                                 ELSE Tail(toks)
                         e == Parse("expr", <<>>, args)
                     IN IF e.ok /\ IsOp(e.rest, {")"})
                        THEN Parse("trailers", <<"call", left, <<e.ast>>>>,
                                   Tail(e.rest))
                        ELSE Fail
           ELSE IF IsOp(toks, {"."})
           THEN IF Len(toks) > 1 /\ toks[2][1] = "name"
                THEN Parse("trailers", <<"attr", left, toks[2][2]>>,
                           Drop(toks, 2))
                ELSE Fail
           ELSE Parsed(left, toks)
      [] rule = "atom" ->
           IF toks = <<>> THEN Fail
           ELSE IF toks[1][1] \in {"num", "name"} THEN Parsed(toks[1], Tail(toks))
           ELSE IF IsOp(toks, {"("})
           THEN IF IsOp(Tail(toks), {")"})
                THEN Parsed(<<"tuple">>, Drop(toks, 2))
                ELSE LET e == Parse("expr", <<>>, Tail(toks))
                     IN IF e.ok /\ IsOp(e.rest, {")"})
                        THEN Parsed(e.ast, Tail(e.rest))
                        ELSE Fail
           ELSE Fail

\* compile(source, "<string>", "eval"): the tree, or a SyntaxError
Compile(s) ==
    LET toks == Tokenize(s)
        e == IF \E i \in DOMAIN toks : toks[i] = BadToken THEN Fail
             ELSE Parse("expr", <<>>, toks)
    IN IF e.ok /\ e.rest = <<>> THEN e ELSE Fail

Raise(kind) == <<"error", kind>>

IsError(v) == v[1] = "error"

\* a ** e for a fraction n/d and an integer e >= 0
RECURSIVE PowFrac(_, _, _)
PowFrac(n, d, e) ==
    IF e = 0 THEN <<1, 1>>
    ELSE LET r == PowFrac(n, d, e - 1)
         IN IF Abs(r[1]) > ValueCap \/ r[2] > ValueCap THEN r
            ELSE <<r[1] * n, r[2] * d>>

\* floor(a / b) for b # 0
FloorDiv(a, b) == IF b > 0 THEN a \div b ELSE (-a) \div (-b)

\* the binary operators on two values
BinOp(op, l, r) ==
    IF l = UnknownV \/ r = UnknownV THEN UnknownV
    ELSE IF op = "+" /\ l = TupleV /\ r = TupleV THEN TupleV
    ELSE IF op = "*" /\ l = TupleV /\ r[1] = "int" THEN TupleV
    ELSE IF op = "*" /\ l[1] = "int" /\ r = TupleV THEN TupleV
    ELSE IF ~IsNum(l) \/ ~IsNum(r) THEN Raise("TypeError")
    ELSE LET ints == l[1] = "int" /\ r[1] = "int"
             ln == Numer(l)
             ld == Denom(l)
             rn == Numer(r)
             rd == Denom(r)
             ex == Exact(l) /\ Exact(r)
             Num(n, d) == IF ints THEN IntV(n \div d) ELSE FloatV(n, d, ex)
         IN CASE op = "+" -> Num(ln * rd + rn * ld, ld * rd)
              [] op = "-" -> Num(ln * rd - rn * ld, ld * rd)
              [] op = "*" -> Num(ln * rn, ld * rd)
              [] op = "/" ->
                   IF rn = 0 THEN Raise("ZeroDivisionError")
                   ELSE IF rn > 0 THEN FloatV(ln * rd, ld * rn, ex)
                   ELSE FloatV(-(ln * rd), ld * (-rn), ex)
              [] op = "//" ->
                   IF rn = 0 THEN Raise("ZeroDivisionError")
                   ELSE IF ints THEN IntV(FloorDiv(ln, rn))
                   ELSE IF ~ex THEN UnknownV
                   ELSE FloatV(FloorDiv(ln * rd, ld * rn), 1, TRUE)
              [] op = "**" ->
                   IF rd # 1 THEN UnknownV
                   ELSE IF rn >= 0
                   THEN IF rn > MaxExponent THEN UnknownV
                        ELSE LET p == PowFrac(ln, ld, rn)
                             IN Num(p[1], p[2])
                   ELSE IF ln = 0 THEN Raise("ZeroDivisionError")
                   ELSE IF -rn > MaxExponent THEN UnknownV
                   ELSE LET p == PowFrac(ln, ld, -rn)
                        IN IF p[1] > 0 THEN FloatV(p[2], p[1], ex)
                           ELSE FloatV(-p[2], -p[1], ex)

UnaryOp(op, v) ==
    IF v = UnknownV THEN UnknownV
    ELSE IF ~IsNum(v) THEN Raise("TypeError")
    ELSE IF op = "+" THEN v
    ELSE IF v[1] = "int" THEN IntV(-v[2])
    ELSE FloatV(-v[2], v[3], v[4])

\* the value of a tree in a namespace, or the exception it raises
RECURSIVE EvalAst(_, _)
EvalAst(a, env) ==
    CASE a[1] = "num" -> a[2]
      [] a[1] = "tuple" -> TupleV
      [] a[1] = "name" ->
           IF a[2] \in DOMAIN env THEN IntV(env[a[2]]) ELSE Raise("NameError")
      [] a[1] = "unary" ->
           LET v == EvalAst(a[3], env)
           IN IF IsError(v) THEN v ELSE UnaryOp(a[2], v)
      [] a[1] = "bin" ->
           LET l == EvalAst(a[3], env)
           IN IF IsError(l) THEN l
              ELSE LET r == EvalAst(a[4], env)
                   IN IF IsError(r) THEN r ELSE BinOp(a[2], l, r)
      [] a[1] = "call" ->
           LET f == EvalAst(a[2], env)
           IN IF IsError(f) THEN f
              ELSE IF a[3] = <<>> THEN
                   (IF f = UnknownV THEN UnknownV ELSE Raise("TypeError"))
              ELSE LET x == EvalAst(a[3][1], env)
                   IN IF IsError(x) THEN x
                      ELSE IF f = UnknownV \/ x = UnknownV THEN UnknownV
                      ELSE Raise("TypeError")
      [] a[1] = "attr" ->
           LET v == EvalAst(a[2], env)
           IN IF IsError(v) THEN v
              ELSE IF v = UnknownV THEN UnknownV
              ELSE Raise("AttributeError")

\* eval(expression) in the namespace of the caller: leading blanks are
\* stripped, the source is compiled, the tree is evaluated
PyEval(s, env) ==
    LET c == Compile(s)
    IN IF c.ok THEN EvalAst(c.ast, env) ELSE Raise("SyntaxError")

\* str(n) for an int
RECURSIVE NatToStr(_)
NatToStr(n) ==
    IF n < 10 THEN <<DigitChar(n)>>
    ELSE NatToStr(n \div 10) \o <<DigitChar(n % 10)>>

IntToStr(n) == IF n < 0 THEN <<"-">> \o NatToStr(-n) ELSE NatToStr(n)

\* f"{result}": the digits of an int, "()" for the empty tuple; the digits
\* of a float are not modelled, the fraction stands for them
Format(v) ==
    CASE v[1] = "int" -> IntToStr(v[2])
      [] v[1] = "tuple" -> <<"(", ")">>
      [] v[1] = "ellipsis" -> <<"E", "l", "l", "i", "p", "s", "i", "s">>
      [] v[1] = "float" -> <<"float", v[2], v[3], v[4]>>

\* what the call returns when eval leaves the range the model computes
NotModelled == [msg |-> "<not modelled>", text |-> <<>>]

\* the three strings calculator_tool returns
Rejected == [msg |-> "Hata: Sadece sayilar ve temel operatorler", text |-> <<>>]

Sonuc(v) == [msg |-> "Sonuc", text |-> Format(v)]

\* variant: the except clause names ArithmeticError, a syntax error escapes
HesaplamaHatasi_ArithmeticOnly(e) ==
    IF e[2] = "SyntaxError" THEN [msg |-> "raise", text |-> <<e[2]>>]
    ELSE [msg |-> "Hesaplama hatasi", text |-> <<e[2]>>]

\* except Exception as e: return f"Hesaplama hatası: {str(e)}"
HesaplamaHatasi(e) == [msg |-> "Hesaplama hatasi", text |-> <<e[2]>>]

\* the characters the arguments of the model are written with
CalcAlphabet == {"0", "2", "3", "+", "-", "*", "/", "(", ")", ".", " ", "y"}

CalcInputs == UNION { [1..n -> CalcAlphabet] : n \in 0..MaxLen }

\* expression trees over integer literals, '+', '-', '*' and unary minus
TreeLeaves == { <<"lit", n>> : n \in {0, 2, 3, 12} }

TreesOver(S) ==
    S \cup { <<op, l, r>> : op \in {"+", "-", "*"}, l \in S, r \in S }
      \cup { <<"neg", t>> : t \in S }

Trees == TreesOver(TreesOver(TreeLeaves))

\* the integer a tree denotes
RECURSIVE TreeValue(_)
TreeValue(t) ==
    CASE t[1] = "lit" -> t[2]
      [] t[1] = "neg" -> -TreeValue(t[2])
      [] t[1] = "+" -> TreeValue(t[2]) + TreeValue(t[3])
      [] t[1] = "-" -> TreeValue(t[2]) - TreeValue(t[3])
      [] t[1] = "*" -> TreeValue(t[2]) * TreeValue(t[3])

\* the usual way of writing a tree: parentheses only where precedence and
\* left-to-right grouping would otherwise give another tree
RECURSIVE Render(_, _)
Render(t, spaced) ==
    LET Paren(x) == <<"(">> \o Render(x, spaced) \o <<")">>
        Sum(x) == x[1] \in {"+", "-"}
        Sep(op) == IF spaced THEN <<" ", op, " ">> ELSE <<op>>
    IN CASE t[1] = "lit" -> NatToStr(t[2])
         [] t[1] = "neg" ->
              <<"-">> \o (IF t[2][1] = "lit" THEN Render(t[2], spaced)
                          ELSE Paren(t[2]))
         [] t[1] \in {"+", "-"} ->
              Render(t[2], spaced) \o Sep(t[1]) \o
                (IF Sum(t[3]) \/ t[3][1] = "neg" THEN Paren(t[3])
                 ELSE Render(t[3], spaced))
         [] t[1] = "*" ->
              (IF Sum(t[2]) \/ t[2][1] = "neg" THEN Paren(t[2])
               ELSE Render(t[2], spaced)) \o Sep("*") \o
              (IF t[3][1] = "lit" THEN Render(t[3], spaced) ELSE Paren(t[3]))

\* the namespaces the tool may be called in
Namespaces == [{<<"y">>} -> {2, 3}]

\* the agent calls calculator_tool(expression)
InitCalc ==
    /\ entry = "6"
    /\ argv1 = NoArg
    /\ envKey = "set"
    /\ dotenvKey = "unset"
    /\ libsMissing = FALSE
    /\ pc = "tool"
    /\ exitStatus = -1
    /\ exitBy = "none"
    /\ allFrom = "none"
    /\ modFrom = "direct"
    /\ curMod = "6"
    /\ exIdx = 1
    /\ started = {1}
    /\ mainEnd = "none"
    /\ modResult = "none"
    /\ runLog = <<>>
    /\ results = EmptyResults
    /\ loaded = {"6"}
    /\ anyExample = TRUE
    /\ prompts = 0
    /\ lastLine = NoArg
    /\ lastInput = "none"
    /\ failedAt = 0
    /\ helpShown = FALSE
    /\ reportShown = FALSE
    /\ response = NoArg
    /\ \/ cexpr \in CalcInputs /\ ctree = <<>>
       \/ \E t \in Trees, spaced \in BOOLEAN :
            cexpr = Render(t, spaced) /\ ctree = t
    /\ cpc = "call"
    /\ cAllowed = FALSE
    /\ cEvaluated = FALSE
    /\ cret = NotCalled
    /\ cglobals = [n \in {<<"y">>} |-> 2]
    /\ cprev = NoPrevious
    /\ ToolIdle
    /\ FileIdle
    /\ LoopIdle

\* calculator_tool: the allow-list test and the rejection
CalcCheck ==
    /\ cpc = "call"
    /\ cAllowed' = AllAllowed(cexpr)
    /\ IF cAllowed'
       THEN cpc' = "checked" /\ UNCHANGED cret
       ELSE cpc' = "returned" /\ cret' = Rejected
    /\ UNCHANGED <<cexpr, ctree, cEvaluated, cglobals, cprev>>
    /\ UNCHANGED <<mainVars, toolVars, fileVars, loopVars>>

\* calculator_tool: eval, the result string, the except clause
CalcEval ==
    /\ cpc = "checked"
    /\ cEvaluated' = TRUE
    /\ LET v == PyEval(cexpr, cglobals)
       IN cret' = IF v = UnknownV THEN NotModelled
                  ELSE IF IsError(v) THEN HesaplamaHatasi(v)
                  ELSE Sonuc(v)
    /\ cpc' = "returned"
    /\ UNCHANGED <<cexpr, ctree, cAllowed, cglobals, cprev>>
    /\ UNCHANGED <<mainVars, toolVars, fileVars, loopVars>>

\* the program runs on, rebinding its names, and calls the tool again with
\* the same argument
CalcCallAgain ==
    /\ cpc = "returned"
    /\ cprev = NoPrevious
    /\ cprev' = cret
    /\ cglobals' \in Namespaces \ {cglobals}
    /\ cpc' = "call"
    /\ cAllowed' = FALSE
    /\ cEvaluated' = FALSE
    /\ cret' = NotCalled
    /\ UNCHANGED <<cexpr, ctree>>
    /\ UNCHANGED <<mainVars, toolVars, fileVars, loopVars>>

NextCalc ==
    \/ CalcCheck
    \/ CalcEval
    \/ CalcCallAgain

SpecCalc == InitCalc /\ [][NextCalc]_vars

-----------------------------------------------------------------------------
(* Properties of the menu script and of the modules' main functions.      *)

\* the value os.getenv("OPENAI_API_KEY") yields is None or the empty string
KeyAbsent ==
    (IF envKey = "unset" THEN dotenvKey ELSE envKey) \in {"unset", "empty"}

KnownArgs ==
    { <<"1">>, <<"2">>, <<"3">>, <<"4">>, <<"5">>, <<"6">>, <<"7">>,
      <<"a","l","l">>, <<"h","e","l","p">>, <<"h">> }

\* C1: with OPENAI_API_KEY unset or empty no example function is ever
\* started: main_demo's main exits with status 1 from the environment check
\* with no module loaded, no prompt read and no argument dispatched, and a
\* module's own main returns before its first example.
C1_NoKeyNoExampleRuns ==
    KeyAbsent =>
      /\ ~anyExample
      /\ started = {}
      /\ pc # "example"
      /\ entry = "main_demo" =>
           /\ pc \in {"start", "exited"}
           /\ pc = "exited" => (exitStatus = 1 /\ exitBy = "sys.exit")
           /\ loaded = {}
           /\ prompts = 0
           /\ lastInput = "none"
           /\ allFrom = "none" /\ modFrom = "none" /\ curMod = "none"
           /\ ~helpShown
      /\ entry \in ModuleKeys => mainEnd \in {"none", "nokey"}

C1_Witness ==
    /\ KeyAbsent
    /\ envKey = "empty"
    /\ entry = "main_demo"
    /\ argv1 = <<"a","l","l">>
    /\ pc = "exited"
    /\ exitStatus = 1

\* C2 as stated: in a run that passes the credential check, every example
\* function listed in the module's main has been started when main ends,
\* whatever the outcome of the examples before it.
C2_EveryExampleStarted ==
    mainEnd \in {"success", "error"} =>
      started = 1..Len(Examples(curMod))

\* C2 amended: the examples of a main share one try block. An example is
\* started only if every example before it returned; the first exception
\* that leaves an example ends the run of the module's examples, is caught
\* by main (which then returns normally) and no later example is started.
C2_ExceptionEndsTheModule ==
    /\ pc = "example" => (started = 1..(exIdx - 1) /\ failedAt = 0)
    /\ failedAt # 0 =>
         /\ started = 1..failedAt
         /\ mainEnd \in {"error", "interrupt"}
         /\ pc # "example"
    /\ mainEnd = "error" =>
         /\ failedAt \in 1..Len(Examples(curMod))
         /\ modFrom = "direct" => (pc = "exited" /\ exitStatus = 0)
         /\ modFrom # "direct" => modResult = TRUE
    /\ mainEnd = "success" =>
         (started = 1..Len(Examples(curMod)) /\ failedAt = 0)

C2_Witness ==
    /\ mainEnd = "error"
    /\ curMod = "1"
    /\ failedAt = 2
    /\ started = {1, 2}
    /\ modFrom = "direct"
    /\ exitStatus = 0

\* C3: after the environment check has passed, main dispatches on the
\* lower-cased first argument: a key 1..7 runs that module and no other,
\* 'all' runs run_all_modules, 'help'/'h' prints the help and runs nothing,
\* no argument enters interactive_mode, anything else exits with status 1.
C3_ArgumentDispatch ==
    (entry = "main_demo" /\ pc \notin {"start", "dispatch"}
       /\ ~KeyAbsent /\ ~libsMissing) =>
      IF argv1 = NoArg
      THEN /\ allFrom # "arg"
           /\ modFrom # "arg"
           /\ (prompts = 0 /\ lastInput = "none") => pc = "menu"
      ELSE LET a == Lower(argv1)
           IN CASE a \in { <<"1">>, <<"2">>, <<"3">>, <<"4">>, <<"5">>,
                           <<"6">>, <<"7">> } ->
                     /\ modFrom = "arg"
                     /\ curMod = a[1]
                     /\ loaded \subseteq {a[1]}
                     /\ pc \in {"run_module", "mod_main", "example", "exited"}
                     /\ allFrom = "none"
                     /\ runLog = <<>>
                     /\ ~helpShown
                     /\ prompts = 0
                     /\ pc = "exited" => exitStatus = 0
                [] a = <<"a","l","l">> ->
                     /\ allFrom = "arg"
                     /\ modFrom \in {"none", "all"}
                     /\ pc \in {"all_confirm", "all_next", "all_sleep",
                                "all_report", "run_module", "mod_main",
                                "example", "exited"}
                     /\ ~helpShown
                [] a \in { <<"h","e","l","p">>, <<"h">> } ->
                     /\ pc = "exited"
                     /\ exitStatus = 0
                     /\ helpShown
                     /\ loaded = {} /\ ~anyExample
                     /\ allFrom = "none" /\ modFrom = "none"
                [] OTHER ->
                     /\ pc = "exited"
                     /\ exitStatus = 1
                     /\ exitBy = "sys.exit"
                     /\ ~helpShown
                     /\ loaded = {} /\ ~anyExample
                     /\ allFrom = "none" /\ modFrom = "none"

C3_Witness ==
    /\ entry = "main_demo"
    /\ argv1 = <<"4">>
    /\ pc = "exited"
    /\ loaded = {"4"}
    /\ mainEnd = "success"
    /\ exitStatus = 0

\* C4 as stated: with OPENAI_API_KEY present main_demo's main never ends
\* the program with sys.exit(1).
C4_NeverExitsWithOne ==
    (entry = "main_demo" /\ ~KeyAbsent) =>
      ~(exitStatus = 1 /\ exitBy = "sys.exit")

\* C4 amended: with OPENAI_API_KEY present the program ends with exit status
\* 1 only when check_environment finds a required library missing, when the
\* argument is none of 1..7, all, help, h (both sys.exit(1)), or when end of
\* input at the confirmation prompt of the argument 'all' leaves main as an
\* uncaught EOFError; never from the interactive loop or a running module.
C4_FatalConditions ==
    (entry = "main_demo" /\ ~KeyAbsent /\ exitStatus = 1) =>
      \/ /\ exitBy = "sys.exit"
         /\ libsMissing
         /\ loaded = {} /\ prompts = 0 /\ allFrom = "none" /\ modFrom = "none"
      \/ /\ exitBy = "sys.exit"
         /\ ~libsMissing
         /\ argv1 # NoArg
         /\ Lower(argv1) \notin KnownArgs
         /\ loaded = {}
      \/ /\ exitBy = "uncaught"
         /\ ~libsMissing
         /\ Lower(argv1) = <<"a","l","l">>
         /\ lastInput = "eof"
         /\ loaded = {}

C4_Witness ==
    /\ entry = "main_demo"
    /\ envKey = "set"
    /\ libsMissing
    /\ argv1 = <<"1">>
    /\ exitStatus = 1
    /\ exitBy = "sys.exit"

AscendingKeys == <<"1", "2", "3", "4", "5", "6", "7">>

InRunAll ==
    \/ pc \in {"all_next", "all_sleep", "all_report"}
    \/ pc \in {"run_module", "mod_main", "example"} /\ modFrom = "all"

RunAllState ==
    InRunAll =>
      LET done == IF pc \in {"all_next", "all_sleep", "all_report"}
                  THEN Len(runLog) ELSE Len(runLog) - 1
      IN /\ Len(runLog) <= Len(AscendingKeys)
         /\ runLog = SubSeq(AscendingKeys, 1, Len(runLog))
         /\ DOMAIN results = {runLog[i] : i \in 1..done}
         /\ pc = "all_sleep" =>
              /\ curMod = runLog[Len(runLog)]
              /\ results[curMod] = modResult
         /\ pc = "all_report" =>
              (runLog = AscendingKeys /\ DOMAIN results = ModuleKeys)

RunAllStep ==
    /\ (pc = "all_next" /\ Len(runLog) < Len(AscendingKeys)) =>
         /\ pc' = "run_module"
         /\ curMod' = AscendingKeys[Len(runLog) + 1]
         /\ results' = results
    /\ (pc = "all_sleep" /\ pc' # "all_next") => lastInput' = "kbd"
    /\ (InRunAll /\ InRunAll') =>
         \A k \in DOMAIN results : k \in DOMAIN results' /\ results'[k] = results[k]
    /\ reportShown' # reportShown => pc = "all_report"

\* C5: once confirmed, run_all_modules passes every key 1..7 to run_module
\* exactly once, in ascending order; a failed module is recorded as failed,
\* is not run again, and the loop goes on to the next key, so the report is
\* printed only with all 7 modules recorded.
C5_RunAllCoversEveryModule == [](RunAllState) /\ [][RunAllStep]_vars

C5_Witness ==
    /\ pc = "all_report"
    /\ DOMAIN results = ModuleKeys
    /\ results["1"] = FALSE
    /\ results["4"] = FALSE
    /\ results["7"] = TRUE

InLoop ==
    entry = "main_demo" /\ argv1 = NoArg /\ pc \notin {"start", "dispatch", "exited"}

InModuleRun == pc \in {"run_module", "mod_main", "example"}

LoopStep ==
    InLoop =>
      LET choice == Lower(Strip(lastLine'))
          read == lastInput' = "line"
          interrupted == lastInput' \in {"kbd", "eof"}
      IN /\ (pc' = "exited") <=>
              (interrupted \/ (pc = "menu" /\ read /\ choice = <<"q">>))
         /\ pc' = "exited" => (exitStatus' = 0 /\ exitBy' = "return")
         /\ (pc = "menu" /\ read) =>
              CASE choice = <<"q">> -> pc' = "exited"
                [] choice = <<"h">> ->
                     pc' = "pause" /\ helpShown' /\ loaded' = loaded
                [] choice = <<"a">> ->
                     pc' = "all_confirm" /\ allFrom' = "menu"
                [] choice \in { <<"1">>, <<"2">>, <<"3">>, <<"4">>, <<"5">>,
                                <<"6">>, <<"7">> } ->
                     pc' = "run_module" /\ curMod' = choice[1] /\ modFrom' = "menu"
                [] OTHER ->
                     /\ pc' = "pause"
                     /\ loaded' = loaded
                     /\ anyExample' = anyExample
                     /\ helpShown' = helpShown
         /\ (pc = "pause" /\ read) => pc' = "menu"
         /\ (InModuleRun /\ modFrom = "menu" /\ ~InModuleRun') => pc' = "pause"
         /\ (pc \in {"all_confirm", "all_report"} /\ ~interrupted
               /\ pc' # "all_next") => pc' = "pause"

\* C6: interactive_mode repeats menu, choice, dispatch; it ends exactly when
\* the stripped, lower-cased choice is 'q' or a KeyboardInterrupt or EOFError
\* reaches the loop; 'h', 'a' and a module key are dispatched and lead back
\* to the menu; any other choice runs no module and leads back to the menu.
C6_InteractiveLoop == [][LoopStep]_vars

C6_Witness ==
    /\ entry = "main_demo"
    /\ argv1 = NoArg
    /\ pc = "menu"
    /\ lastLine = <<" ","7","\n">>
    /\ loaded = {"7"}
    /\ mainEnd = "success"
    /\ prompts = 2

-----------------------------------------------------------------------------
(* Properties of calculator_tool.                                          *)

\* the characters the description of the tool permits
PermittedCharacters ==
    {"0", "1", "2", "3", "4", "5", "6", "7", "8", "9"}
      \cup {"+", "-", "*", "/", "(", ")", ".", " "}

HasOtherCharacter(s) == \E i \in DOMAIN s : s[i] \notin PermittedCharacters

\* C7: an input with at least one character outside the digits, + - * / ( ) .
\* and space is answered with the rejection message and nothing is evaluated;
\* for every input the character check is decided before any evaluation:
\* nothing is evaluated while the call has not passed the check, and
\* whatever is evaluated has passed it.
C7_RejectsOtherCharacters ==
    /\ (cpc = "returned" /\ HasOtherCharacter(cexpr)) =>
           (cret = Rejected /\ ~cEvaluated)
    /\ cpc = "call" => ~cEvaluated
    /\ cEvaluated => (cAllowed /\ ~HasOtherCharacter(cexpr))
    /\ cpc = "checked" => (cAllowed /\ ~HasOtherCharacter(cexpr))

C7_Witness ==
    /\ cpc = "returned"
    /\ cexpr = <<"2", "+", "y">>
    /\ cret = Rejected
    /\ ~cEvaluated

\* C8: for a well-formed expression over integer literals, + - *, parentheses
\* and spaces, calculator_tool returns 'Sonuc: v' with v the value of the
\* expression under standard precedence: parentheses first, multiplication
\* before addition and subtraction, left to right.
C8_StandardPrecedence ==
    (ctree # <<>> /\ cpc = "returned") =>
        cret = [msg |-> "Sonuc", text |-> IntToStr(TreeValue(ctree))]

C8_Witness ==
    /\ cpc = "returned"
    /\ cexpr = <<"2", "+", "2", "*", "3">>
    /\ ctree = <<"+", <<"lit", 2>>, <<"*", <<"lit", 2>>, <<"lit", 3>>>>>>
    /\ cret = [msg |-> "Sonuc", text |-> <<"8">>]

\* an operator other than the four basic ones: '**' or '//'
UsesOtherOperator(s) ==
    \E i \in 1..(Len(s) - 1) :
        \/ s[i] = "*" /\ s[i + 1] = "*"
        \/ s[i] = "/" /\ s[i + 1] = "/"

\* C9: an input that uses an operator other than + - * /, such as '**' or
\* '//', is answered with the rejection message and is not evaluated.
C9_OnlyBasicOperators ==
    (cpc = "returned" /\ UsesOtherOperator(cexpr)) =>
        (cret = Rejected /\ ~cEvaluated)

\* a step of a call leaves the variables of the program as they are
CallKeepsProgramState ==
    cpc \in {"call", "checked"} =>
        (cglobals' = cglobals /\ mainVars' = mainVars)

\* C10: no letter passes the allow-list, so nothing that is evaluated names
\* a variable; a second call with the same input, made with the program's
\* names bound to other values, returns the same string as the first; and
\* no step of a call changes a variable of the program.
C10_SameInputSameAnswer ==
    /\ [](cEvaluated => \A i \in DOMAIN cexpr : cexpr[i] \notin NameChars)
    /\ []((cpc = "returned" /\ cprev # NoPrevious) => cret = cprev)
    /\ [][CallKeepsProgramState]_vars

C10_Witness ==
    /\ cpc = "returned"
    /\ cexpr = <<"2", "*", "3">>
    /\ cprev = Sonuc(IntV(6))
    /\ cglobals = [n \in {<<"y">>} |-> 3]
    /\ cret = cprev

-----------------------------------------------------------------------------
(* The helper functions of modules 2 and 6.                                *)

\* the most list items, digits of a number and characters of a text the
\* helper functions are called with
MaxItems == 3

MaxNumLen == 3

MaxText == 4

\* the largest num the loop of fibonacci_tool is followed for
MaxFib == 40

StartsWith(s, p) == Len(s) >= Len(p) /\ SubSeq(s, 1, Len(p)) = p

\* str.split(sep): the pieces between the occurrences of sep, found from
\* the left; cur is the piece being read
RECURSIVE SplitOn(_, _, _)
SplitOn(s, sep, cur) ==
    IF s = <<>> THEN <<cur>>
    ELSE IF StartsWith(s, sep)
    THEN <<cur>> \o SplitOn(Drop(s, Len(sep)), sep, <<>>)
    ELSE SplitOn(Tail(s), sep, cur \o <<Head(s)>>)

\* variant: empty pieces are dropped, as split() without a separator does
Split_WithoutEmpty(s, sep) == SelectSeq(SplitOn(s, sep, <<>>), LAMBDA x : x # <<>>)

\* s.split(sep)
Split(s, sep) == SplitOn(s, sep, <<>>)

\* sep.join(items)
RECURSIVE Join(_, _)
Join(items, sep) ==
    IF items = <<>> THEN <<>>
    ELSE IF Len(items) = 1 THEN items[1]
    ELSE items[1] \o sep \o Join(Tail(items), sep)

\* variant: the separator is the comma alone
ListSeparator_CommaOnly == <<",">>

\* the separator of CommaSeparatedListOutputParser: ", "
ListSeparator == <<",", " ">>

\* CommaSeparatedListOutputParser.parse: text.strip().split(", ")
parse(text) == Split(Strip(text), ListSeparator)

\* the items the lists of the model are made of
ItemChars == {"a", "b", "c", ",", " "}

Items == [1..1 -> ItemChars] \cup [1..2 -> ItemChars]

ItemLists == UNION { [1..n -> Items] : n \in 1..MaxItems }

\* what a helper function returns: a kind and a content
Returned(kind, content) == [msg |-> kind, text |-> content]

\* a call of parse(text)
ParseCall ==
    /\ tool = "parse"
    /\ tpc = "call"
    /\ tret' = Returned("list", parse(targ))
    /\ tpc' = "returned"
    /\ UNCHANGED <<tool, targ, titems, tnum, ta, tb, ti>>
    /\ UNCHANGED <<mainVars, calcVars, fileVars, loopVars>>

\* the text of an int() argument without its underscores
NoUnderscores(s) == SelectSeq(s, LAMBDA c : c # "_")

\* digits, with single underscores between digits only
IsDigitGroup(s) ==
    /\ s # <<>>
    /\ \A i \in DOMAIN s : s[i] \in Digits \cup {"_"}
    /\ s[1] \in Digits
    /\ s[Len(s)] \in Digits
    /\ \A i \in 1..(Len(s) - 1) : ~(s[i] = "_" /\ s[i + 1] = "_")

\* int(n) for a string: blanks around are dropped, one sign may lead, the
\* digits may be grouped with underscores; anything else is a ValueError
PyInt(s) ==
    LET t == Strip(s)
        signed == t # <<>> /\ t[1] \in {"+", "-"}
        body == IF signed THEN Tail(t) ELSE t
        mag == DigitsValue(NoUnderscores(body))
    IN IF IsDigitGroup(body)
       THEN [ok |-> TRUE, val |-> IF signed /\ t[1] = "-" THEN -mag ELSE mag]
       ELSE [ok |-> FALSE, val |-> 0]

\* the arguments fibonacci_tool and prime_check_tool are called with
NumChars == {"0", "1", "2", "3", "7", "-", "+", " ", "_", "a", "."}

NumInputs == UNION { [1..n -> NumChars] : n \in 0..MaxNumLen }

\* variant: the test for a negative number lets -1 through
IsNegative_BelowMinusOne(num) == num < -1

\* fibonacci_tool: num < 0
IsNegative(num) == num < 0

\* variant: a = b, then b = a + b, one after the other
FibStep_Sequential(a, b) == <<b, b + b>>

\* fibonacci_tool: a, b = b, a + b
FibStep(a, b) == <<b, a + b>>

\* fibonacci_tool up to the loop: int(n), the two early returns, a, b = 0, 1
FibCall ==
    /\ tool = "fibonacci_tool"
    /\ tpc = "call"
    /\ LET r == PyInt(targ)
       IN IF ~r.ok
          THEN /\ tret' = Returned("Hata", <<"ValueError">>)
               /\ tpc' = "returned"
               /\ UNCHANGED <<tnum, ta, tb, ti>>
          ELSE IF IsNegative(r.val)
          THEN /\ tret' = Returned("Negatif sayilar icin hesaplanamaz", <<>>)
               /\ tpc' = "returned"
               /\ tnum' = r.val
               /\ UNCHANGED <<ta, tb, ti>>
          ELSE IF r.val <= 1
          THEN /\ tret' = Returned("str(num)", <<IntToStr(r.val)>>)
               /\ tpc' = "returned"
               /\ tnum' = r.val
               /\ UNCHANGED <<ta, tb, ti>>
          ELSE /\ r.val <= MaxFib
               /\ tnum' = r.val
               /\ ta' = 0
               /\ tb' = 1
               /\ ti' = 1
               /\ tpc' = "loop"
               /\ UNCHANGED tret
    /\ UNCHANGED <<tool, targ, titems>>
    /\ UNCHANGED <<mainVars, calcVars, fileVars, loopVars>>

\* fibonacci_tool: one iteration of for _ in range(2, num + 1)
FibIter ==
    /\ tool = "fibonacci_tool"
    /\ tpc = "loop"
    /\ ti < tnum
    /\ ta' = FibStep(ta, tb)[1]
    /\ tb' = FibStep(ta, tb)[2]
    /\ ti' = ti + 1
    /\ UNCHANGED <<tool, targ, titems, tpc, tnum, tret>>
    /\ UNCHANGED <<mainVars, calcVars, fileVars, loopVars>>

\* fibonacci_tool: the range is exhausted, the result string is returned
FibReturn ==
    /\ tool = "fibonacci_tool"
    /\ tpc = "loop"
    /\ ti = tnum
    /\ tret' = Returned("Fibonacci sayisi", <<IntToStr(tnum), IntToStr(tb)>>)
    /\ tpc' = "returned"
    /\ UNCHANGED <<tool, targ, titems, tnum, ta, tb, ti>>
    /\ UNCHANGED <<mainVars, calcVars, fileVars, loopVars>>

\* int(math.sqrt(num)) for num >= 0
Isqrt(num) == CHOOSE r \in 0..num : r * r <= num /\ (r + 1) * (r + 1) > num

\* variant: the range ends at the square root itself
RangeEnd_NoPlusOne(num) == Isqrt(num)

\* prime_check_tool: the end of range(2, int(math.sqrt(num)) + 1)
RangeEnd(num) == Isqrt(num) + 1

\* variant: the cofactor is named in place of the divisor found
NamedDivisor_Cofactor(num, i) == num \div i

\* prime_check_tool: the divisor the answer names
NamedDivisor(num, i) == i

\* prime_check_tool up to the loop: int(n) and the return for num < 2
PrimeCall ==
    /\ tool = "prime_check_tool"
    /\ tpc = "call"
    /\ LET r == PyInt(targ)
       IN IF ~r.ok
          THEN /\ tret' = Returned("Hata", <<"ValueError">>)
               /\ tpc' = "returned"
               /\ UNCHANGED <<tnum, ti>>
          ELSE IF r.val < 2
          THEN /\ tret' = Returned("asal sayi degildir", <<IntToStr(r.val)>>)
               /\ tpc' = "returned"
               /\ tnum' = r.val
               /\ UNCHANGED ti
          ELSE /\ tnum' = r.val
               /\ ti' = 2
               /\ tpc' = "loop"
               /\ UNCHANGED tret
    /\ UNCHANGED <<tool, targ, titems, ta, tb>>
    /\ UNCHANGED <<mainVars, calcVars, fileVars, loopVars>>

\* prime_check_tool: one iteration of the loop over the candidates
PrimeIter ==
    /\ tool = "prime_check_tool"
    /\ tpc = "loop"
    /\ ti < RangeEnd(tnum)
    /\ IF tnum % ti = 0
       THEN /\ tret' = Returned("asal sayi degildir",
                                <<IntToStr(tnum),
                                  IntToStr(NamedDivisor(tnum, ti))>>)
            /\ tpc' = "returned"
            /\ UNCHANGED ti
       ELSE /\ ti' = ti + 1
            /\ UNCHANGED <<tret, tpc>>
    /\ UNCHANGED <<tool, targ, titems, tnum, ta, tb>>
    /\ UNCHANGED <<mainVars, calcVars, fileVars, loopVars>>

\* prime_check_tool: the range is exhausted, num is reported prime
PrimeReturn ==
    /\ tool = "prime_check_tool"
    /\ tpc = "loop"
    /\ ti >= RangeEnd(tnum)
    /\ tret' = Returned("asal sayidir", <<IntToStr(tnum)>>)
    /\ tpc' = "returned"
    /\ UNCHANGED <<tool, targ, titems, tnum, ta, tb, ti>>
    /\ UNCHANGED <<mainVars, calcVars, fileVars, loopVars>>

\* str.split(): the maximal runs of characters that are not whitespace
RECURSIVE WordsOf(_, _)
WordsOf(s, cur) ==
    IF s = <<>> THEN (IF cur = <<>> THEN <<>> ELSE <<cur>>)
    ELSE IF IsSpace(Head(s))
    THEN (IF cur = <<>> THEN <<>> ELSE <<cur>>) \o WordsOf(Tail(s), <<>>)
    ELSE WordsOf(Tail(s), cur \o <<Head(s)>>)

PySplit(s) == WordsOf(s, <<>>)

\* text.count(c)
Count(s, c) == Cardinality({ i \in DOMAIN s : s[i] = c })

\* variant: every whitespace character is removed
NoSpaces_NoWhitespace(s) == SelectSeq(s, LAMBDA c : ~IsSpace(c))

\* text.replace(" ", "")
NoSpaces(s) == SelectSeq(s, LAMBDA c : c # " ")

RECURSIVE SumLen(_)
SumLen(ws) == IF ws = <<>> THEN 0 ELSE Len(Head(ws)) + SumLen(Tail(ws))

\* f"{total / count:.2f}" in hundredths: the quotient rounded to two
\* decimals, a tie (an exact binary fraction) to the even neighbour
Hundredths(total, count) ==
    LET q == (100 * total) \div count
        r == (100 * total) % count
    IN IF 2 * r > count THEN q + 1
       ELSE IF 2 * r = count THEN q + (q % 2)
       ELSE q

\* the texts text_analysis_tool is called with
TextChars == {"a", "b", ".", "!", "?", " ", "\t"}

TextInputs == UNION { [1..n -> TextChars] : n \in 0..MaxText }

\* text_analysis_tool: the five statistics; with no word the division
\* raises and nothing catches it
TextCall ==
    /\ tool = "text_analysis_tool"
    /\ tpc = "call"
    /\ LET words == PySplit(targ)
           characters == Len(targ)
           characters_no_spaces == Len(NoSpaces(targ))
           sentences == Count(targ, ".") + Count(targ, "!") + Count(targ, "?")
       IN tret' = IF Len(words) = 0
                  THEN Returned("raise", <<"ZeroDivisionError">>)
                  ELSE Returned("Metin Analizi",
                                <<Len(words), characters, characters_no_spaces,
                                  sentences,
                                  Hundredths(SumLen(words), Len(words))>>)
    /\ tpc' = "returned"
    /\ UNCHANGED <<tool, targ, titems, tnum, ta, tb, ti>>
    /\ UNCHANGED <<mainVars, calcVars, fileVars, loopVars>>

\* the letters of the city names; "I-dot" stands for the capital I with a
\* dot above (U+0130), "dot" for the combining dot above (U+0307) and
\* "i-nodot" for the small dotless i (U+0131)
LowerCode(c) ==
    CASE c = "A" -> <<"a">> [] c = "B" -> <<"b">> [] c = "I" -> <<"i">>
      [] c = "K" -> <<"k">> [] c = "L" -> <<"l">> [] c = "M" -> <<"m">>
      [] c = "N" -> <<"n">> [] c = "P" -> <<"p">> [] c = "R" -> <<"r">>
      [] c = "S" -> <<"s">> [] c = "T" -> <<"t">> [] c = "U" -> <<"u">>
      [] c = "Y" -> <<"y">> [] c = "Z" -> <<"z">>
      [] c = "I-dot" -> <<"i", "dot">>
      [] OTHER -> <<c>>

\* str.lower, which may lengthen the string
RECURSIVE PyLower(_)
PyLower(s) == IF s = <<>> THEN <<>> ELSE LowerCode(Head(s)) \o PyLower(Tail(s))

\* the keys of mock_weather_data
WeatherKeys ==
    { <<"i", "s", "t", "a", "n", "b", "u", "l">>,
      <<"a", "n", "k", "a", "r", "a">>,
      <<"i", "z", "m", "i", "r">>,
      <<"a", "n", "t", "a", "l", "y", "a">> }

\* the ways a small letter is written in another letter case
CaseForms(c) ==
    CASE c = "a" -> {"a", "A"} [] c = "b" -> {"b", "B"}
      [] c = "i" -> {"i", "I", "I-dot"}
      [] c = "k" -> {"k", "K"} [] c = "l" -> {"l", "L"} [] c = "m" -> {"m", "M"}
      [] c = "n" -> {"n", "N"} [] c = "r" -> {"r", "R"} [] c = "s" -> {"s", "S"}
      [] c = "t" -> {"t", "T"} [] c = "u" -> {"u", "U"} [] c = "y" -> {"y", "Y"}
      [] c = "z" -> {"z", "Z"}

\* a name in every letter case
RECURSIVE CaseVariants(_)
CaseVariants(name) ==
    IF name = <<>> THEN {<<>>}
    ELSE { <<c>> \o v : c \in CaseForms(Head(name)),
                        v \in CaseVariants(Tail(name)) }

\* the cities weather_tool is called with
CityInputs ==
    UNION { CaseVariants(k) : k \in WeatherKeys }
      \cup { <<>>, <<"P", "a", "r", "i", "s">>, <<"i", "z", "m", "i", "t">>,
             <<"i-nodot", "z", "m", "i", "r">>, <<" ", "i", "z", "m", "i", "r">> }

\* weather_tool: the lookup of city.lower()
WeatherCall ==
    /\ tool = "weather_tool"
    /\ tpc = "call"
    /\ LET city_lower == PyLower(targ)
       IN tret' = IF city_lower \in WeatherKeys
                  THEN Returned("hava durumu", city_lower)
                  ELSE Returned("bulunamadi", targ)
    /\ tpc' = "returned"
    /\ UNCHANGED <<tool, targ, titems, tnum, ta, tb, ti>>
    /\ UNCHANGED <<mainVars, calcVars, fileVars, loopVars>>

\* the longest text parse is called with, beyond the joined lists
MaxParse == 5

\* the texts parse is called with: items, commas, blanks and line ends in
\* any arrangement
ParseChars == {"a", ",", " ", "\n"}

ParseTexts == UNION { [1..n -> ParseChars] : n \in 0..MaxParse }

\* the most words an argument of currency_converter_tool has
MaxWords == 5

\* str.upper on the letters the words use
UpperChar(c) ==
    CASE c = "u" -> "U" [] c = "s" -> "S" [] c = "d" -> "D" [] c = "t" -> "T"
      [] c = "o" -> "O" [] c = "i" -> "I" [] c = "n" -> "N" [] c = "r" -> "R"
      [] c = "y" -> "Y" [] c = "e" -> "E"
      [] OTHER -> c

Upper(s) == [i \in DOMAIN s |-> UpperChar(s[i])]

USD == <<"U", "S", "D">>

EUR == <<"E", "U", "R">>

GBP == <<"G", "B", "P">>

TRY == <<"T", "R", "Y">>

\* exchange_rates, each rate in thousandths
exchange_rates ==
    (<<USD, TRY>> :> 27500) @@ (<<EUR, TRY>> :> 30200) @@ (<<GBP, TRY>> :> 35100)
    @@ (<<USD, EUR>> :> 910) @@ (<<EUR, USD>> :> 1100) @@ (<<TRY, USD>> :> 36)

\* the words the arguments of currency_converter_tool are made of
CurrencyWords ==
    { <<"1", "0", "0">>, USD, <<"u", "s", "d">>, TRY, <<"t", "o">>,
      <<"T", "O">>, <<"i", "n">> }

RECURSIVE JoinWords(_)
JoinWords(ws) ==
    IF ws = <<>> THEN <<>>
    ELSE IF Len(ws) = 1 THEN ws[1]
    ELSE ws[1] \o <<" ">> \o JoinWords(Tail(ws))

CurrencyInputs ==
    { JoinWords(ws) : ws \in UNION { [1..n -> CurrencyWords] : n \in 0..MaxWords } }

\* float(s) for the words of the model, which hold no sign, point or
\* exponent: a run of digits is its value, any other word raises ValueError
PyFloat(s) ==
    IF s # <<>> /\ \A i \in DOMAIN s : s[i] \in Digits
    THEN [ok |-> TRUE, val |-> DigitsValue(s)]
    ELSE [ok |-> FALSE, val |-> 0]

\* "to" in parts
HasTo(parts) == \E i \in DOMAIN parts : parts[i] = <<"t", "o">>

\* currency_converter_tool
CurrencyCall ==
    /\ tool = "currency_converter_tool"
    /\ tpc = "call"
    /\ LET parts == PySplit(targ)
       IN tret' =
            IF ~HasTo(parts)
            THEN Returned("Format", <<>>)
            ELSE IF ~PyFloat(parts[1]).ok
            THEN Returned("Hata", <<"ValueError">>)
            ELSE IF Len(parts) < 4
            THEN Returned("Hata", <<"IndexError">>)
            ELSE LET amount == PyFloat(parts[1]).val
                     from_currency == Upper(parts[2])
                     to_currency == Upper(parts[4])
                     rate_key == <<from_currency, to_currency>>
                 IN IF rate_key \in DOMAIN exchange_rates
                    THEN Returned("conversion",
                                  <<amount, from_currency,
                                    Hundredths(amount * exchange_rates[rate_key], 1000),
                                    to_currency>>)
                    ELSE Returned("kur bulunamadi", <<from_currency, to_currency>>)
    /\ tpc' = "returned"
    /\ UNCHANGED <<tool, targ, titems, tnum, ta, tb, ti>>
    /\ UNCHANGED <<mainVars, calcVars, fileVars, loopVars>>

\* the script is parked in module mod, with the key k in the environment,
\* while one function of that module is looked at
ParkedAt(mod, k) ==
    /\ entry = mod
    /\ argv1 = NoArg
    /\ envKey = k
    /\ dotenvKey = "unset"
    /\ libsMissing = FALSE
    /\ pc = "tool"
    /\ exitStatus = -1
    /\ exitBy = "none"
    /\ allFrom = "none"
    /\ modFrom = "direct"
    /\ curMod = mod
    /\ exIdx = 1
    /\ started = {1}
    /\ mainEnd = "none"
    /\ modResult = "none"
    /\ runLog = <<>>
    /\ results = EmptyResults
    /\ loaded = {mod}
    /\ anyExample = TRUE
    /\ prompts = 0
    /\ lastLine = NoArg
    /\ lastInput = "none"
    /\ failedAt = 0
    /\ helpShown = FALSE
    /\ reportShown = FALSE
    /\ response = NoArg

\* the script is parked while a helper function is looked at
MainParked == ParkedAt("6", "set")

\* a helper function is called with an argument
InitTools ==
    /\ MainParked
    /\ CalcIdle
    /\ FileIdle
    /\ LoopIdle
    /\ \/ /\ tool = "parse"
          /\ \E items \in ItemLists :
                titems = items /\ targ = Join(items, <<",", " ">>)
       \/ /\ tool = "parse"
          /\ titems = <<>>
          /\ targ \in ParseTexts
       \/ /\ tool = "currency_converter_tool"
          /\ titems = <<>>
          /\ targ \in CurrencyInputs
       \/ /\ tool \in {"fibonacci_tool", "prime_check_tool"}
          /\ titems = <<>>
          /\ targ \in NumInputs
       \/ /\ tool = "text_analysis_tool"
          /\ titems = <<>>
          /\ targ \in TextInputs
       \/ /\ tool = "weather_tool"
          /\ titems = <<>>
          /\ targ \in CityInputs
    /\ tpc = "call"
    /\ tnum = 0
    /\ ta = 0
    /\ tb = 0
    /\ ti = 0
    /\ tret = NotCalled

NextTools ==
    \/ ParseCall
    \/ FibCall
    \/ FibIter
    \/ FibReturn
    \/ PrimeCall
    \/ PrimeIter
    \/ PrimeReturn
    \/ TextCall
    \/ WeatherCall
    \/ CurrencyCall

SpecTools == InitTools /\ [][NextTools]_vars

-----------------------------------------------------------------------------
(* Properties of the helper functions.                                     *)

ReturnedFrom(name) == tool = name /\ tpc = "returned"

\* a list item that is not empty and holds neither a comma nor whitespace
PlainItem(it) ==
    it # <<>> /\ \A j \in DOMAIN it : it[j] \notin {",", " ", "\t", "\n"}

\* C11: for a list of one or more non-empty items without commas and
\* whitespace, parse of the items joined by ', ' returns that list, in order;
\* parse of the empty string returns the one-element list [''].
C11_ParseReturnsTheItems ==
    ReturnedFrom("parse") =>
        /\ (titems # <<>> /\ \A i \in DOMAIN titems : PlainItem(titems[i]))
              => tret = [msg |-> "list", text |-> titems]
        /\ targ = <<>> => tret = [msg |-> "list", text |-> << <<>> >>]

C11_Witness ==
    /\ ReturnedFrom("parse")
    /\ targ = <<"a", ",", " ", "b", ",", " ", "c">>
    /\ titems = << <<"a">>, <<"b">>, <<"c">> >>
    /\ tret.text = titems

\* a string of decimal digits, and the number it writes
DecimalText(s) == s # <<>> /\ \A i \in DOMAIN s : s[i] \in Digits

\* F(0) = 0, F(1) = 1, F(k) = F(k-1) + F(k-2), computed a pair
\* <<F(k), F(k+1)>> at a time
FNext(p) == <<p[2], p[1] + p[2]>>

RECURSIVE FPair(_)
FPair(k) == IF k = 0 THEN <<0, 1>> ELSE FNext(FPair(k - 1))

F(k) == FPair(k)[1]

\* C12: for an integer n >= 0 given as a decimal string the number
\* fibonacci_tool reports is F(n); for n >= 2 the loop holds
\* (a, b) = (F(i-1), F(i)) after the iteration for index i and the result is
\* returned after the iteration for i = n.
C12_FibonacciValue ==
    (tool = "fibonacci_tool" /\ DecimalText(targ)) =>
        LET n == DigitsValue(targ)
        IN /\ tpc = "returned" =>
                 /\ tret.msg \in {"str(num)", "Fibonacci sayisi"}
                 /\ tret.text[Len(tret.text)] = IntToStr(F(n))
                 /\ n >= 2 => (ti = n /\ tb = F(n) /\ ta = F(n - 1))
           /\ tpc = "loop" =>
                 /\ tnum = n
                 /\ ti \in 1..n
                 /\ ta = F(ti - 1)
                 /\ tb = F(ti)

C12_Witness ==
    /\ ReturnedFrom("fibonacci_tool")
    /\ targ = <<"1", "0">>
    /\ tret = [msg |-> "Fibonacci sayisi", text |-> << <<"1", "0">>, <<"5", "5">> >>]

\* the text of an integer as int() reads it: blanks around, one optional
\* sign, digits that single underscores may group
IntegerText(s) ==
    \E i \in 0..Len(s), j \in 0..Len(s) :
        /\ i < j
        /\ \A k \in 1..i : IsSpace(s[k])
        /\ \A k \in (j + 1)..Len(s) : IsSpace(s[k])
        /\ LET first == IF s[i + 1] \in {"+", "-"} THEN i + 2 ELSE i + 1
           IN /\ first <= j
              /\ s[first] \in Digits
              /\ s[j] \in Digits
              /\ \A k \in first..j :
                    \/ s[k] \in Digits
                    \/ s[k] = "_" /\ s[k - 1] \in Digits /\ s[k + 1] \in Digits

\* the text of an integer below zero
NegativeText(s) ==
    /\ IntegerText(s)
    /\ \E i \in DOMAIN s : s[i] = "-"
    /\ \E i \in DOMAIN s : s[i] \in Digits \ {"0"}

\* C13: for a negative integer and for an input that is not the text of an
\* integer, fibonacci_tool returns an error message, reports no Fibonacci
\* value, and no exception leaves the function.
C13_FibonacciErrors ==
    /\ tool = "fibonacci_tool" => tret.msg # "raise"
    /\ (ReturnedFrom("fibonacci_tool") /\ NegativeText(targ)) =>
           tret = [msg |-> "Negatif sayilar icin hesaplanamaz", text |-> <<>>]
    /\ (ReturnedFrom("fibonacci_tool") /\ ~IntegerText(targ)) =>
           tret = [msg |-> "Hata", text |-> <<"ValueError">>]

C13_Witness ==
    /\ ReturnedFrom("fibonacci_tool")
    /\ targ = <<"-", "1">>
    /\ tret.msg = "Negatif sayilar icin hesaplanamaz"

\* an integer written as a decimal string, with a minus sign if negative
SignedDecimalText(s) ==
    \/ DecimalText(s)
    \/ s # <<>> /\ s[1] = "-" /\ DecimalText(Tail(s))

SignedValue(s) == IF s[1] = "-" THEN -DigitsValue(Tail(s)) ELSE DigitsValue(s)

IsPrime(n) == n >= 2 /\ \A d \in 2..(n - 1) : n % d # 0

\* C14: for an integer n given as a decimal string prime_check_tool answers
\* 'asal sayidir' exactly when n >= 2 and no d with 1 < d < n divides n, and
\* 'asal sayi degildir' otherwise, also for 0, 1 and every negative n.
C14_PrimeAnswer ==
    (ReturnedFrom("prime_check_tool") /\ SignedDecimalText(targ)) =>
        LET n == SignedValue(targ)
        IN /\ tret.msg = IF IsPrime(n) THEN "asal sayidir"
                         ELSE "asal sayi degildir"
           /\ tret.text[1] = IntToStr(n)

C14_Witness ==
    /\ ReturnedFrom("prime_check_tool")
    /\ targ = <<"1", "7">>
    /\ tret = [msg |-> "asal sayidir", text |-> << <<"1", "7">> >>]

\* C15: for a composite n >= 4 the answer names a divisor d with 1 < d < n,
\* the smallest one; for n < 2 the answer names no divisor.
C15_SmallestDivisorNamed ==
    (ReturnedFrom("prime_check_tool") /\ SignedDecimalText(targ)) =>
        LET n == SignedValue(targ)
        IN /\ (n >= 4 /\ ~IsPrime(n)) =>
                 /\ Len(tret.text) = 2
                 /\ \E d \in 2..(n - 1) :
                       /\ n % d = 0
                       /\ \A e \in 2..(d - 1) : n % e # 0
                       /\ tret.text[2] = IntToStr(d)
           /\ n < 2 => Len(tret.text) = 1

C15_Witness ==
    /\ ReturnedFrom("prime_check_tool")
    /\ targ = <<"7", "7">>
    /\ tret = [msg |-> "asal sayi degildir", text |-> << <<"7", "7">>, <<"7">> >>]

\* the places of a text where a word starts: a character that is not
\* whitespace, at the start or after whitespace
WordStarts(s) ==
    { i \in DOMAIN s : ~IsSpace(s[i]) /\ (i = 1 \/ IsSpace(s[i - 1])) }

\* C16: for a text with at least one word text_analysis_tool reports the
\* number of maximal runs of non-whitespace characters, the length of the
\* text, the length minus the number of space characters, the number of
\* '.', '!' and '?' characters, and the sum of the word lengths divided by
\* the word count (printed with two decimals).
C16_TextStatistics ==
    (ReturnedFrom("text_analysis_tool") /\ WordStarts(targ) # {}) =>
        LET words == Cardinality(WordStarts(targ))
            total == Cardinality({ i \in DOMAIN targ : ~IsSpace(targ[i]) })
            spaces == Cardinality({ i \in DOMAIN targ : targ[i] = " " })
            marks == Cardinality({ i \in DOMAIN targ :
                                     targ[i] \in {".", "!", "?"} })
            h == tret.text[5]
        IN /\ tret.msg = "Metin Analizi"
           /\ tret.text[1] = words
           /\ tret.text[2] = Len(targ)
           /\ tret.text[3] = Len(targ) - spaces
           /\ tret.text[4] = marks
           /\ 2 * (100 * total - h * words) <= words
           /\ 2 * (h * words - 100 * total) <= words

C16_Witness ==
    /\ ReturnedFrom("text_analysis_tool")
    /\ targ = <<"a", "\t", "b", ".">>
    /\ tret = [msg |-> "Metin Analizi", text |-> <<2, 4, 4, 1, 150>>]

\* C20: weather_tool returns the stored record for each of the four city
\* names it documents, in any letter case of those names, and the not-found
\* message naming the city as given for every other city.
C20_DocumentedCitiesFound ==
    ReturnedFrom("weather_tool") =>
        IF \E k \in WeatherKeys : targ \in CaseVariants(k)
        THEN tret.msg = "hava durumu" /\ targ \in CaseVariants(tret.text)
        ELSE tret = [msg |-> "bulunamadi", text |-> targ]

\* ------------------------------------------------------------------------
\* The files and directories of modules 4 and 5
\* (4_document_loading.py main, cleanup_files, create_sample_documents;
\*  5_vector_stores_embeddings.py chroma_vector_store_example,
\*  faiss_vector_store_example)
\*
\* disk is the set of files and directories that exist; a name that ends in
\* "/" is a directory.  Every call into the framework or the file system
\* either returns or raises; pending is the exception on its way up,
\* raisedAt the step that raised first, leftBy how the function was left.
\* ------------------------------------------------------------------------

\* an ordinary exception, and one that `except Exception` does not catch
ExcKinds == {"Exception", "KeyboardInterrupt"}

\* except Exception as e
ExceptCatches(e) == e = "Exception"

\* the position of step x in the sequence of steps
IndexOf(steps, x) == CHOOSE i \in DOMAIN steps : steps[i] = x

\* the step after x, or end after the last one
After(steps, x, end) ==
    IF IndexOf(steps, x) = Len(steps) THEN end ELSE steps[IndexOf(steps, x) + 1]

\* the elements of a sequence of steps
StepsOf(steps) == { steps[i] : i \in DOMAIN steps }

IsDirectory(name) == name \in {"temp_dir/", "faiss_index/"}

\* the statements of main's try block in module 4; create_sample_documents
\* is its two open(..., "w") blocks
Main4Body ==
    <<"open sample_text.txt", "open sample_web.html",
      "text_loader_example", "directory_loader_example", "web_loader_example",
      "character_text_splitter_example", "recursive_text_splitter_example",
      "token_text_splitter_example", "document_summarization_example">>

\* the file a step of module 4 writes
Writes(step) ==
    IF step = "open sample_text.txt" THEN {"sample_text.txt"}
    ELSE IF step = "open sample_web.html" THEN {"sample_web.html"}
    ELSE {}

CleanupRemoves_HtmlFirst == <<"sample_web.html", "sample_text.txt">>

\* cleanup_files: the os.remove calls, in order
CleanupRemoves == <<"sample_text.txt", "sample_web.html">>

\* main of module 4: if not os.getenv("OPENAI_API_KEY"): return
Main4Check ==
    /\ fn = "main"
    /\ fpc = "check"
    /\ fpc' = IF KeyFalsy(envKey) THEN "leave" ELSE Main4Body[1]
    /\ UNCHANGED <<fn, disk, pending, raisedAt, leftBy>>
    /\ UNCHANGED <<mainVars, calcVars, toolVars, loopVars>>

\* one statement of the try block returns
Main4Step ==
    /\ fn = "main"
    /\ fpc \in StepsOf(Main4Body)
    /\ disk' = disk \cup Writes(fpc)
    /\ fpc' = After(Main4Body, fpc, "remove1")
    /\ UNCHANGED <<fn, pending, raisedAt, leftBy>>
    /\ UNCHANGED <<mainVars, calcVars, toolVars, loopVars>>

\* one statement of the try block raises; an open(..., "w") block can raise
\* before the file exists or after (while writing)
Main4Raise ==
    /\ fn = "main"
    /\ fpc \in StepsOf(Main4Body)
    /\ \E e \in ExcKinds, w \in SUBSET Writes(fpc) :
        /\ disk' = disk \cup w
        /\ pending' = e
        /\ fpc' = IF ExceptCatches(e) THEN "except" ELSE "remove1"
    /\ raisedAt' = fpc
    /\ UNCHANGED <<fn, leftBy>>
    /\ UNCHANGED <<mainVars, calcVars, toolVars, loopVars>>

\* except Exception as e: print(...)
Main4Except ==
    /\ fn = "main"
    /\ fpc = "except"
    /\ pending' = "none"
    /\ fpc' = "remove1"
    /\ UNCHANGED <<fn, disk, raisedAt, leftBy>>
    /\ UNCHANGED <<mainVars, calcVars, toolVars, loopVars>>

\* finally: cleanup_files(), one os.remove; removing a file that does not
\* exist raises FileNotFoundError, which `except: pass` ends the function on
Main4Remove ==
    /\ fn = "main"
    /\ fpc \in {"remove1", "remove2"}
    /\ LET i == IF fpc = "remove1" THEN 1 ELSE 2
           f == CleanupRemoves[i]
       IN  IF f \in disk
           THEN /\ disk' = disk \ {f}
                /\ fpc' = IF i = 1 THEN "remove2" ELSE "leave"
           ELSE /\ disk' = disk
                /\ fpc' = "leave"
    /\ UNCHANGED <<fn, pending, raisedAt, leftBy>>
    /\ UNCHANGED <<mainVars, calcVars, toolVars, loopVars>>

\* chroma_vector_store_example: the statements before the try block
ChromaBefore == <<"create_sample_knowledge_base", "OpenAIEmbeddings", "mkdtemp">>

\* chroma_vector_store_example: the statements of the try block
ChromaBody == <<"Chroma.from_documents", "similarity_search",
                "similarity_search_with_score">>

ChromaAfterBody_OnSuccessOnly(raised) == IF raised THEN "leave" ELSE "rmtree"

\* try: ... finally: the finally block follows the body however it ends
ChromaAfterBody(raised) == "rmtree"

\* one statement of chroma_vector_store_example returns
ChromaStep ==
    /\ fn = "chroma_vector_store_example"
    /\ \/ /\ fpc \in StepsOf(ChromaBefore)
          /\ fpc' = After(ChromaBefore, fpc, ChromaBody[1])
       \/ /\ fpc \in StepsOf(ChromaBody)
          /\ fpc' = After(ChromaBody, fpc, ChromaAfterBody(FALSE))
    /\ disk' = IF fpc = "mkdtemp" THEN disk \cup {"temp_dir/"} ELSE disk
    /\ UNCHANGED <<fn, pending, raisedAt, leftBy>>
    /\ UNCHANGED <<mainVars, calcVars, toolVars, loopVars>>

\* one statement of chroma_vector_store_example raises
ChromaRaise ==
    /\ fn = "chroma_vector_store_example"
    /\ \/ /\ fpc \in StepsOf(ChromaBefore)
          /\ fpc' = "leave"
       \/ /\ fpc \in StepsOf(ChromaBody)
          /\ fpc' = ChromaAfterBody(TRUE)
    /\ \E e \in ExcKinds : pending' = e
    /\ raisedAt' = fpc
    /\ UNCHANGED <<fn, disk, leftBy>>
    /\ UNCHANGED <<mainVars, calcVars, toolVars, loopVars>>

\* finally: shutil.rmtree(temp_dir, ignore_errors=True)
ChromaRmtree ==
    /\ fn = "chroma_vector_store_example"
    /\ fpc = "rmtree"
    /\ disk' = disk \ {"temp_dir/"}
    /\ fpc' = "leave"
    /\ UNCHANGED <<fn, pending, raisedAt, leftBy>>
    /\ UNCHANGED <<mainVars, calcVars, toolVars, loopVars>>

\* faiss_vector_store_example: the statements before the try block
FaissBefore == <<"create_sample_knowledge_base", "OpenAIEmbeddings",
                 "FAISS.from_documents", "similarity_search">>

\* faiss_vector_store_example: the statements of the try block before the
\* removal loop
FaissBody == <<"save_local", "load_local", "similarity_search of the loaded store">>

\* what save_local("faiss_index") leaves on disk: a directory of that name,
\* or files whose names start with it
SavedForms == { {"faiss_index/"}, {"faiss_index.faiss", "faiss_index.pkl"} }

\* glob.glob("faiss_index*")
FaissGlob(d) == d \cap UNION SavedForms

\* one statement of faiss_vector_store_example returns
FaissStep ==
    /\ fn = "faiss_vector_store_example"
    /\ \/ /\ fpc \in StepsOf(FaissBefore)
          /\ fpc' = After(FaissBefore, fpc, FaissBody[1])
       \/ /\ fpc \in StepsOf(FaissBody)
          /\ fpc' = After(FaissBody, fpc, "remove")
    /\ IF fpc = "save_local"
       THEN \E form \in SavedForms : disk' = disk \cup form
       ELSE disk' = disk
    /\ UNCHANGED <<fn, pending, raisedAt, leftBy>>
    /\ UNCHANGED <<mainVars, calcVars, toolVars, loopVars>>

\* one statement of faiss_vector_store_example raises; save_local can raise
\* with part of its output written
FaissRaise ==
    /\ fn = "faiss_vector_store_example"
    /\ \E e \in ExcKinds :
        /\ pending' = e
        /\ \/ /\ fpc \in StepsOf(FaissBefore)
              /\ fpc' = "leave"
           \/ /\ fpc \in StepsOf(FaissBody)
              /\ fpc' = IF ExceptCatches(e) THEN "except" ELSE "leave"
    /\ IF fpc = "save_local"
       THEN \E form \in SavedForms : \E w \in SUBSET form : disk' = disk \cup w
       ELSE disk' = disk
    /\ raisedAt' = fpc
    /\ UNCHANGED <<fn, leftBy>>
    /\ UNCHANGED <<mainVars, calcVars, toolVars, loopVars>>

\* for file in glob.glob("faiss_index*"): os.remove(file) -- one iteration,
\* or the end of the loop; os.remove raises on a directory
FaissRemove ==
    /\ fn = "faiss_vector_store_example"
    /\ fpc = "remove"
    /\ IF FaissGlob(disk) = {}
       THEN /\ fpc' = "leave"
            /\ UNCHANGED <<disk, pending, raisedAt>>
       ELSE \E f \in FaissGlob(disk) :
              IF IsDirectory(f)
              THEN /\ pending' = "Exception"
                   /\ raisedAt' = "os.remove"
                   /\ fpc' = "except"
                   /\ disk' = disk
              ELSE /\ disk' = disk \ {f}
                   /\ UNCHANGED <<fpc, pending, raisedAt>>
    /\ UNCHANGED <<fn, leftBy>>
    /\ UNCHANGED <<mainVars, calcVars, toolVars, loopVars>>

\* except Exception as e: print(...)
FaissExcept ==
    /\ fn = "faiss_vector_store_example"
    /\ fpc = "except"
    /\ pending' = "none"
    /\ fpc' = "leave"
    /\ UNCHANGED <<fn, disk, raisedAt, leftBy>>
    /\ UNCHANGED <<mainVars, calcVars, toolVars, loopVars>>

\* the function is left: it returns, or the exception still pending leaves it
Leave ==
    /\ fn # "none"
    /\ fpc = "leave"
    /\ leftBy' = IF pending = "none" THEN "return" ELSE "raise"
    /\ fpc' = "done"
    /\ UNCHANGED <<fn, disk, pending, raisedAt>>
    /\ UNCHANGED <<mainVars, calcVars, toolVars, loopVars>>

\* one of the three functions is entered; nothing of theirs is on disk
InitFiles ==
    /\ CalcIdle
    /\ ToolIdle
    /\ LoopIdle
    /\ \/ /\ fn = "main"
          /\ fpc = "check"
          /\ \E k \in {"unset", "empty", "set"} : ParkedAt("4", k)
       \/ /\ fn = "chroma_vector_store_example"
          /\ fpc = ChromaBefore[1]
          /\ ParkedAt("5", "set")
       \/ /\ fn = "faiss_vector_store_example"
          /\ fpc = FaissBefore[1]
          /\ ParkedAt("5", "set")
    /\ disk = {}
    /\ pending = "none"
    /\ raisedAt = "none"
    /\ leftBy = "none"

NextFiles ==
    \/ Main4Check
    \/ Main4Step
    \/ Main4Raise
    \/ Main4Except
    \/ Main4Remove
    \/ ChromaStep
    \/ ChromaRaise
    \/ ChromaRmtree
    \/ FaissStep
    \/ FaissRaise
    \/ FaissRemove
    \/ FaissExcept
    \/ Leave

SpecFiles == InitFiles /\ [][NextFiles]_vars

\* ------------------------------------------------------------------------
\* Properties of the files and directories
\* ------------------------------------------------------------------------

SampleFiles == {"sample_text.txt", "sample_web.html"}

\* C17: when main of module 4 has passed the credential check and is left,
\* neither sample_text.txt nor sample_web.html exists -- whether every
\* example succeeded, an example raised, or create_sample_documents failed
\* after writing the first file.
C17_SampleFilesRemoved ==
    (fn = "main" /\ fpc = "done" /\ ~KeyFalsy(envKey))
        => disk \cap SampleFiles = {}

\* sample creation failed at the second file and main returned with no file left
C17_Witness ==
    /\ fn = "main"
    /\ leftBy = "return"
    /\ raisedAt = "open sample_web.html"
    /\ disk = {}

\* C18: on every path of chroma_vector_store_example that follows
\* tempfile.mkdtemp(), the temporary directory is gone when the function is
\* about to be left, by return or by the exception of a failed step.
C18_TempDirRemoved ==
    (fn = "chroma_vector_store_example" /\ fpc \in {"leave", "done"}
        /\ raisedAt \notin StepsOf(ChromaBefore))
        => "temp_dir/" \notin disk

\* building the vector store raised, and the exception has not left yet
C18_Witness ==
    /\ fn = "chroma_vector_store_example"
    /\ fpc = "leave"
    /\ pending = "Exception"
    /\ raisedAt = "Chroma.from_documents"
    /\ "temp_dir/" \notin disk

\* C19: when faiss_vector_store_example returns, nothing that save_local
\* wrote under the name faiss_index is left on disk.
C19_NoIndexLeft ==
    (fn = "faiss_vector_store_example" /\ leftBy = "return")
        => FaissGlob(disk) = {}

\* ------------------------------------------------------------------------
\* Further properties of main_demo.py and of the modules' main
\* ------------------------------------------------------------------------

\* run_module has returned to main_demo after the module's main ended
ModuleRunOver == mainEnd # "none" /\ modFrom \in {"arg", "menu", "all"}

\* C21: run_module returns True (and run_all_modules records the module as
\* successful) only if every example function of the module was run and
\* none of them raised.
C21_SuccessMeansEveryExampleRan ==
    (ModuleRunOver /\ modResult = TRUE) =>
        (failedAt = 0 /\ started = 1..Len(Examples(curMod)))

\* C23: a module's main prints its success line only when every example
\* function was called and returned; when an exception leaves an example
\* the error line is printed and the success line is not.
C23_SuccessLineOnlyAfterAllReturned ==
    /\ mainEnd = "success" =>
         (failedAt = 0 /\ started = 1..Len(Examples(curMod)) /\ pc # "example")
    /\ (failedAt # 0 /\ mainEnd # "interrupt") => mainEnd = "error"
    /\ mainEnd = "error" => (failedAt # 0 /\ failedAt = exIdx)

\* the last example of module 3 raised: the error line, not the success line
C23_Witness ==
    /\ curMod = "3"
    /\ mainEnd = "error"
    /\ failedAt = 6
    /\ started = 1..6

\* what the caller of run_module does with the value False
BackInCaller ==
    CASE modFrom = "all" ->
           /\ pc' = "all_sleep"
           /\ curMod \in DOMAIN results'
           /\ results'[curMod] = FALSE
      [] modFrom = "menu" -> pc' = "pause" /\ exitStatus' = -1
      [] modFrom = "arg" -> pc' = "exited" /\ exitStatus' = 0 /\ exitBy' = "return"
      [] OTHER -> FALSE

InterruptStep ==
    /\ (pc = "example" /\ mainEnd' = "interrupt" /\ modFrom # "direct") =>
         (BackInCaller /\ modResult' = FALSE)
    /\ (pc = "run_module" /\ pc' # "mod_main") =>
         (BackInCaller /\ modResult' = FALSE)
    /\ (pc = "all_sleep" /\ lastInput' # "kbd") => pc' = "all_next"
    /\ (pc = "all_next" /\ Len(runLog) < Len(SortedKeys)) =>
         (pc' = "run_module" /\ curMod' = SortedKeys[Len(runLog) + 1])
    /\ (pc = "pause" /\ lastInput' = "line") => pc' = "menu"

ConfirmingAnswers == { <<"y">>, <<"y","e","s">>, <<"e","v","e","t">>, <<"e">> }

ConfirmStep ==
    (pc = "all_confirm" /\ lastInput' = "line") =>
        IF Lower(response') \in ConfirmingAnswers
        THEN pc' = "all_next"
        ELSE /\ pc' = (IF allFrom = "menu" THEN "pause" ELSE "exited")
             /\ loaded' = loaded
             /\ anyExample' = anyExample
             /\ reportShown' = reportShown
             /\ curMod' = curMod

\* C30: run_all_modules goes on to its loop only when the lower-cased
\* answer is 'y', 'yes', 'evet' or 'e'; any other answer, the empty line
\* included, makes it return with no module run and no report printed.
C30_OnlyConfirmedRuns ==
    /\ [][ConfirmStep]_vars
    /\ [](InRunAll => (prompts > 0 /\ allFrom \in {"arg", "menu"}))

\* the empty answer cancelled `main_demo.py all`
C30_Witness ==
    /\ allFrom = "arg"
    /\ response = <<>>
    /\ pc = "exited"
    /\ loaded = {}
    /\ ~reportShown

\* ------------------------------------------------------------------------
\* Further properties of the helper functions
\* ------------------------------------------------------------------------

\* C24: text_analysis_tool returns its statistics string for every input
\* string, the empty string and blank strings included, and lets no
\* exception escape.
C24_AlwaysStatistics ==
    ReturnedFrom("text_analysis_tool") => tret.msg = "Metin Analizi"

\* the third word of the text is 'to'
ToIsThirdWord(text) ==
    LET words == PySplit(text)
    IN Len(words) >= 3 /\ words[3] = <<"t", "o">>

\* C26: currency_converter_tool answers with a conversion only when the
\* argument has the shape 'amount FROM to TO', the word 'to' being its
\* third token; any other argument gets the format message or an error.
C26_ConvertsOnlyDocumentedShape ==
    (ReturnedFrom("currency_converter_tool") /\ tret.msg = "conversion")
        => ToIsThirdWord(targ)

\* C27: every comma of the text separates two elements of the list parse
\* returns, whether or not a space follows it ('a,b,c' gives three).
C27_EveryCommaSeparates ==
    ReturnedFrom("parse") => Len(tret.text) = Count(targ, ",") + 1

\* the text between its first and its last character that is not whitespace
Trimmed(t) ==
    LET inked == { i \in DOMAIN t : t[i] \notin {" ", "\t", "\n"} }
    IN IF inked = {} THEN <<>>
       ELSE SubSeq(t, CHOOSE i \in inked : \A j \in inked : i <= j,
                      CHOOSE i \in inked : \A j \in inked : i >= j)

HoldsCommaSpace(it) ==
    \E i \in 1..(Len(it) - 1) : it[i] = "," /\ it[i + 1] = " "

\* C28: for every text t the elements of parse(t) joined by ', ' are t
\* without its leading and trailing whitespace; the list is never empty and
\* no element holds a comma followed by a space.
C28_JoinGivesBackTheText ==
    ReturnedFrom("parse") =>
        /\ Len(tret.text) >= 1
        /\ Join(tret.text, <<",", " ">>) = Trimmed(targ)
        /\ \A i \in DOMAIN tret.text : ~HoldsCommaSpace(tret.text[i])

\* a text with an empty-looking middle: 'a, ,a' gives ['a', ',a']
C28_Witness ==
    /\ ReturnedFrom("parse")
    /\ titems = <<>>
    /\ targ = <<"a", ",", " ", ",", "a">>
    /\ tret.text = << <<"a">>, <<",", "a">> >>

\* malformed expressions of allowed characters: '', '2+' and '('
Malformed == { <<>>, <<"2", "+">>, <<"(">> }

\* C25: for an input made only of allowed characters calculator_tool
\* returns 'Sonuc: <value>' or 'Hesaplama hatasi: <reason>' and no exception
\* escapes: a division by zero, the empty string and malformed expressions
\* such as '2+' and '(' give the error string.
C25_ResultOrErrorString ==
    (cpc = "returned" /\ ~HasOtherCharacter(cexpr) /\ cret # NotModelled) =>
        /\ cret.msg \in {"Sonuc", "Hesaplama hatasi"}
        /\ cexpr \in Malformed =>
             cret = [msg |-> "Hesaplama hatasi", text |-> <<"SyntaxError">>]
        /\ cexpr \in { <<"2", "/", "0">>, <<"0", "/", "0">>, <<"3", "/", "0", ".">> } =>
             cret = [msg |-> "Hesaplama hatasi", text |-> <<"ZeroDivisionError">>]

\* '2+' is answered with the error string
C25_Witness ==
    /\ cpc = "returned"
    /\ cexpr = <<"2", "+">>
    /\ cEvaluated
    /\ cret = [msg |-> "Hesaplama hatasi", text |-> <<"SyntaxError">>]

\* ------------------------------------------------------------------------
\* The query loops of basic_agent_example (6_agents_and_tools.py),
\* retrieval_qa_example (5_vector_stores_embeddings.py) and
\* basic_rag_example (7_rag_system.py): for each query a try block around
\* the call that answers it, and `except Exception` printing the error.
\* ------------------------------------------------------------------------

\* test_queries of basic_agent_example
test_queries == <<"15 * 24 + 100", "hava durumu", "tarih ve saat", "250 + 150">>

\* questions of retrieval_qa_example
questions ==
    <<"data types", "web development", "machine learning", "data science",
      "mobile app">>

\* rag_questions of basic_rag_example
rag_questions ==
    <<"Django ve Flask", "supervised learning", "React hooks", "SQL JOIN",
      "IaaS, PaaS, SaaS">>

\* the list the loop of function f runs over
QueryList(f) ==
    CASE f = "basic_agent_example" -> test_queries
      [] f = "retrieval_qa_example" -> questions
      [] f = "basic_rag_example" -> rag_questions

\* variant: the try block is around the whole loop
AfterQuery_LoopInsideTry(o) ==
    IF o = "ok" THEN "head" ELSE IF o = "exc" THEN "done" ELSE "left"

\* where the loop goes when the try block of one query ended with outcome o
AfterQuery(o) ==
    IF o = "ok" THEN "head" ELSE IF o = "exc" THEN "except" ELSE "left"

\* for query in ...: the next element is taken, or the loop ends
LoopHead ==
    /\ qpc = "head"
    /\ IF qi < Len(QueryList(qfn))
       THEN qi' = qi + 1 /\ qpc' = "try"
       ELSE qi' = qi /\ qpc' = "done"
    /\ UNCHANGED <<qfn, qlog>>
    /\ UNCHANGED <<mainVars, calcVars, toolVars, fileVars>>

\* try: the call that answers the query, and the prints of the answer
QueryTry ==
    /\ qpc = "try"
    /\ \E o \in Outcomes :
         /\ qlog' = Append(qlog, <<QueryList(qfn)[qi], o>>)
         /\ qpc' = AfterQuery(o)
    /\ UNCHANGED <<qfn, qi>>
    /\ UNCHANGED <<mainVars, calcVars, toolVars, fileVars>>

\* except Exception as e: print(...)
QueryExcept ==
    /\ qpc = "except"
    /\ qpc' = "head"
    /\ UNCHANGED <<qfn, qi, qlog>>
    /\ UNCHANGED <<mainVars, calcVars, toolVars, fileVars>>

\* one of the three examples has reached its loop
InitLoops ==
    /\ CalcIdle
    /\ ToolIdle
    /\ FileIdle
    /\ \/ qfn = "basic_agent_example" /\ ParkedAt("6", "set")
       \/ qfn = "retrieval_qa_example" /\ ParkedAt("5", "set")
       \/ qfn = "basic_rag_example" /\ ParkedAt("7", "set")
    /\ qpc = "head"
    /\ qi = 0
    /\ qlog = <<>>

NextLoops ==
    \/ LoopHead
    \/ QueryTry
    \/ QueryExcept

SpecLoops == InitLoops /\ [][NextLoops]_vars

\* the queries of the log, in the order of their attempts
Attempted == [i \in DOMAIN qlog |-> qlog[i][1]]

\* a KeyboardInterrupt has left the loop
Interrupted == \E i \in DOMAIN qlog : qlog[i][2] = "kbd"

\* C22: in the query loops of the agent, retrieval-QA and RAG examples an
\* exception raised while one query is answered is caught and the loop goes
\* on: the queries are attempted in list order, each once, and a loop that
\* ends has attempted every query, whatever the outcomes were.
C22_EveryQueryAttempted ==
    /\ Attempted = SubSeq(QueryList(qfn), 1, Len(qlog))
    /\ qpc = "except" => (qlog[Len(qlog)][2] = "exc" /\ Len(qlog) = qi)
    /\ qpc = "done" => Attempted = QueryList(qfn)
    /\ ~Interrupted => qpc # "left"

\* retrieval_qa_example ended after its second and its last question raised
C22_Witness ==
    /\ qfn = "retrieval_qa_example"
    /\ qpc = "done"
    /\ qlog = << <<"data types", "ok">>, <<"web development", "exc">>,
                 <<"machine learning", "ok">>, <<"data science", "ok">>,
                 <<"mobile app", "exc">> >>

=============================================================================
